---------------------------- MODULE Spec2Model ----------------------------
(***************************************************************************)
(* Luma: cycle-aware task scheduler.  Model of the phase calendar, the     *)
(* capacity model, the candidate scorer, the scheduler, the period log     *)
(* (cycle store) and the rescheduling advisor.                             *)
(*                                                                         *)
(* Conventions of the model                                                *)
(*   - A calendar date is an integer day number.  ISO date strings         *)
(*     (yyyy-MM-dd) order exactly as the days they name, so the string     *)
(*     comparisons of the source are integer comparisons here.  Day 0 is   *)
(*     a Sunday: getDay(d) = d % 7.                                        *)
(*   - JavaScript null / undefined of a date or number field is NULL.      *)
(*   - Scores are kept in tenths of a point: the default weights           *)
(*     0.40/0.30/0.20/0.10 are 4/3/2/1 and totalScore here is ten times    *)
(*     the source's totalScore.  For the sub-score values the source can   *)
(*     produce, the IEEE-754 sums order and differ exactly as these        *)
(*     integers do.                                                        *)
(***************************************************************************)
EXTENDS Integers, Sequences, FiniteSets, TLC

VARIABLES
    today,      \* startOfDay(new Date())
    cycles,     \* db.cycles, in primary-key order (oldest start first)
    tasks,      \* db.tasks, in primary-key order (toArray)
    history,    \* db.taskHistory, append-only
    prefs,      \* user preferences
    arg,        \* the argument record of the operation under way
    out,        \* the value returned by the last operation
    pending     \* applyRescheduling: suggestions not yet persisted

vars == <<today, cycles, tasks, history, prefs, arg, out, pending>>

NULL == -1

(***************************************************************************)
(* Small helpers                                                           *)
(***************************************************************************)
Max(a, b) == IF a >= b THEN a ELSE b

\* Math.round(n / d) for n >= 0, d > 0 (round half up)
RoundDiv(n, d) == (2 * n + d) \div (2 * d)

\* Math.floor(n / d), d > 0
FloorDiv(n, d) == n \div d

\* Math.ceil(n / d), d > 0
CeilDiv(n, d) == -((-n) \div d)

\* a sequence given as a function over 1..n, as an explicit tuple
AsTuple(f) == f \o <<>>

\* F applied to the value of e: e is evaluated once, however often F uses it
Once(e, F(_)) == CHOOSE r \in {F(v) : v \in {e}} : TRUE

RECURSIVE SumSeq(_)
SumSeq(s) == IF s = <<>> THEN 0 ELSE Head(s) + SumSeq(Tail(s))

RECURSIVE SelectSeqIdx(_, _)
\* indices of s kept by SelectSeq, used to filter while keeping order
SelectSeqIdx(s, keep) ==
    IF s = <<>> THEN <<>>
    ELSE LET rest == SelectSeqIdx(SubSeq(s, 1, Len(s) - 1), keep)
         IN  IF Len(s) \in keep THEN Append(rest, s[Len(s)]) ELSE rest

\* Array.prototype.sort is stable: the result of sorting s by key is the one
\* permutation in which keys are ordered and equal keys keep input order;
\* rank[i] is the place of s[i] in it.
SortedByRank(s, rank) ==
    Once(AsTuple(rank), LAMBDA place :
        AsTuple([r \in 1..Len(s) |-> s[CHOOSE i \in 1..Len(s) : place[i] = r]]))

\* [...cycles].sort((a, b) => new Date(a.startDate) - new Date(b.startDate))
SortCyclesAsc(cs) ==
    LET rank == [i \in 1..Len(cs) |->
                    1 + Cardinality({j \in 1..Len(cs) :
                          \/ cs[j].startDate < cs[i].startDate
                          \/ cs[j].startDate = cs[i].startDate /\ j < i})]
    IN  SortedByRank(cs, rank)

\* [...cycles].sort((a, b) => new Date(b.startDate) - new Date(a.startDate))
SortCyclesDesc(cs) ==
    LET rank == [i \in 1..Len(cs) |->
                    1 + Cardinality({j \in 1..Len(cs) :
                          \/ cs[j].startDate > cs[i].startDate
                          \/ cs[j].startDate = cs[i].startDate /\ j < i})]
    IN  SortedByRank(cs, rank)

\* scored.sort((a, b) => b.totalScore - a.totalScore)
SortScoredDesc(sc) ==
    LET rank == [i \in 1..Len(sc) |->
                    1 + Cardinality({j \in 1..Len(sc) :
                          \/ sc[j].totalScore > sc[i].totalScore
                          \/ sc[j].totalScore = sc[i].totalScore /\ j < i})]
    IN  SortedByRank(sc, rank)

(***************************************************************************)
(* Phase calendar (cycleHelpers)                                           *)
(***************************************************************************)
PhaseNames == <<"menstrual", "follicular", "ovulation", "luteal">>

\* mutant: the follicular window ends on day 14 and runs into ovulation
calculatePhasesFromStart_FollicularDay14(start, menstrualDuration, cycleLength) ==
    [menstrual  |-> [start |-> start,                     end |-> start + menstrualDuration - 1],
     follicular |-> [start |-> start + menstrualDuration, end |-> start + 13],
     ovulation  |-> [start |-> start + 13,                end |-> start + 14],
     luteal     |-> [start |-> start + 15,                end |-> start + cycleLength - 1]]

calculatePhasesFromStart(start, menstrualDuration, cycleLength) ==
    [menstrual  |-> [start |-> start,                     end |-> start + menstrualDuration - 1],
     follicular |-> [start |-> start + menstrualDuration, end |-> start + 12],
     ovulation  |-> [start |-> start + 13,                end |-> start + 14],
     luteal     |-> [start |-> start + 15,                end |-> start + cycleLength - 1]]

\* the phase of a date against four windows, tried in fixed order
PhaseInWindows(d, phases) ==
    IF      d >= phases.menstrual.start  /\ d <= phases.menstrual.end  THEN "menstrual"
    ELSE IF d >= phases.follicular.start /\ d <= phases.follicular.end THEN "follicular"
    ELSE IF d >= phases.ovulation.start  /\ d <= phases.ovulation.end  THEN "ovulation"
    ELSE IF d >= phases.luteal.start     /\ d <= phases.luteal.end     THEN "luteal"
    ELSE "none"

getPhaseForDate(d, cycle) == PhaseInWindows(d, cycle.phases)

calculateAverageCycleLength(cs) ==
    IF Len(cs) < 2 THEN 28
    ELSE Once(SortCyclesAsc(cs), LAMBDA sorted :
         LET diffs  == AsTuple([i \in 1..(Len(cs) - 1) |->
                          sorted[i + 1].startDate - sorted[i].startDate])
             valid  == {i \in 1..(Len(cs) - 1) : diffs[i] >= 21 /\ diffs[i] <= 45}
             total  == SumSeq(SelectSeqIdx(diffs, valid))
         IN  IF valid # {} THEN RoundDiv(total, Cardinality(valid)) ELSE 28)

calculateAverageMenstrualDuration(cs) ==
    IF Len(cs) = 0 THEN 5
    ELSE LET durs == AsTuple([i \in 1..Len(cs) |-> cs[i].menstrualDuration])
             have == {i \in 1..Len(cs) : durs[i] # NULL /\ durs[i] > 0}
         IN  IF have = {} THEN 5
             ELSE RoundDiv(SumSeq(SelectSeqIdx(durs, have)), Cardinality(have))

createCycleEntry(startDate, endDate, existingCycles) ==
    LET menstrualDuration == IF endDate # NULL THEN endDate - startDate + 1 ELSE 5
        cycleLength ==
            IF Len(existingCycles) > 0
            THEN IF Len(existingCycles) >= 2
                 THEN calculateAverageCycleLength(
                          Append(AsTuple([i \in 1..Len(existingCycles) |->
                                     [startDate |-> existingCycles[i].startDate]]),
                                 [startDate |-> startDate]))
                 ELSE startDate - SortCyclesDesc(existingCycles)[1].startDate
            ELSE 28
    IN  [startDate         |-> startDate,
         endDate           |-> endDate,
         menstrualDuration |-> menstrualDuration,
         cycleLength       |-> NULL,
         phases |-> calculatePhasesFromStart(startDate, menstrualDuration, cycleLength)]

\* mutant: each length is the gap to the cycle before, not to the next one
updateCycleLengths_GapToPrevious(cs) ==
    IF Len(cs) < 2 THEN cs
    ELSE Once(SortCyclesAsc(cs), LAMBDA sorted :
             AsTuple([i \in 1..Len(cs) |->
                 [sorted[i] EXCEPT !.cycleLength =
                     IF i > 1 THEN sorted[i].startDate - sorted[i - 1].startDate
                     ELSE NULL]]))

updateCycleLengths(cs) ==
    IF Len(cs) < 2 THEN cs
    ELSE Once(SortCyclesAsc(cs), LAMBDA sorted :
             AsTuple([i \in 1..Len(cs) |->
                 [sorted[i] EXCEPT !.cycleLength =
                     IF i < Len(cs) THEN sorted[i + 1].startDate - sorted[i].startDate
                     ELSE NULL]]))

\* first logged cycle, newest start first, whose windows hold the date
RECURSIVE FirstLoggedPhase(_, _)
FirstLoggedPhase(d, sorted) ==
    IF sorted = <<>> THEN "none"
    ELSE LET phase == getPhaseForDate(d, Head(sorted))
         IN  IF phase # "none" THEN phase ELSE FirstLoggedPhase(d, Tail(sorted))

\* tier 2: forward prediction from the latest logged start
PredictedPhase(d, cs, sorted) ==
    LET latestStart == sorted[1].startDate
        daysDiff    == d - latestStart
    IN  IF daysDiff > 0
        THEN Once(calculateAverageCycleLength(cs), LAMBDA avgCycleLength :
             LET avgMenstrualDuration == calculateAverageMenstrualDuration(cs)
                 cycleNumber          == FloorDiv(daysDiff, avgCycleLength)
                 predictedCycleStart  == latestStart + cycleNumber * avgCycleLength
             IN  PhaseInWindows(d, calculatePhasesFromStart(
                     predictedCycleStart, avgMenstrualDuration, avgCycleLength)))
        ELSE "none"

\* tier 3: backward projection from the earliest logged start
ProjectedPhase(d, cs, sorted) ==
    LET firstStart == sorted[Len(sorted)].startDate
    IN  IF d < firstStart
        THEN Once(calculateAverageCycleLength(cs), LAMBDA avgCycleLength :
             LET avgMenstrualDuration == calculateAverageMenstrualDuration(cs)
                 daysBack             == firstStart - d
                 cyclesBack           == CeilDiv(daysBack, avgCycleLength)
                 projectedStart       == firstStart - cyclesBack * avgCycleLength
             IN  PhaseInWindows(d, calculatePhasesFromStart(
                     projectedStart, avgMenstrualDuration, avgCycleLength)))
        ELSE "none"

\* mutant: the cycles are tried oldest start first
getPhaseForDateAdvanced_OldestFirst(d, cs) ==
    IF Len(cs) = 0 THEN "none"
    ELSE Once(SortCyclesDesc(cs), LAMBDA sorted :
         Once(FirstLoggedPhase(d, SortCyclesAsc(cs)), LAMBDA logged :
             IF logged # "none" THEN logged
             ELSE Once(PredictedPhase(d, cs, sorted), LAMBDA predicted :
                      IF predicted # "none" THEN predicted
                      ELSE ProjectedPhase(d, cs, sorted))))

\* mutant: a date after the latest start is predicted before the logged
\* windows are consulted
getPhaseForDateAdvanced_PredictionFirst(d, cs) ==
    IF Len(cs) = 0 THEN "none"
    ELSE Once(SortCyclesDesc(cs), LAMBDA sorted :
         Once(PredictedPhase(d, cs, sorted), LAMBDA predicted :
             IF predicted # "none" THEN predicted
             ELSE Once(FirstLoggedPhase(d, sorted), LAMBDA logged :
                      IF logged # "none" THEN logged
                      ELSE ProjectedPhase(d, cs, sorted))))

getPhaseForDateAdvanced(d, cs) ==
    IF Len(cs) = 0 THEN "none"
    ELSE Once(SortCyclesDesc(cs), LAMBDA sorted :
         Once(FirstLoggedPhase(d, sorted), LAMBDA logged :
             IF logged # "none" THEN logged
             ELSE Once(PredictedPhase(d, cs, sorted), LAMBDA predicted :
                      IF predicted # "none" THEN predicted
                      ELSE ProjectedPhase(d, cs, sorted))))

\* mutant: a date no cycle resolves is taken as follicular
PhaseOrLuteal_DefaultsFollicular(d, cs) ==
    Once(getPhaseForDateAdvanced(d, cs), LAMBDA phase :
        IF phase = "none" THEN "follicular" ELSE phase)

\* getPhaseForDateAdvanced(d, cycles) || 'luteal'
PhaseOrLuteal(d, cs) ==
    Once(getPhaseForDateAdvanced(d, cs), LAMBDA phase :
        IF phase = "none" THEN "luteal" ELSE phase)

(***************************************************************************)
(* Capacity model (capacityHelpers)                                        *)
(***************************************************************************)
\* PHASE_MULTIPLIERS, in hundredths
PHASE_MULTIPLIERS ==
    [menstrual |-> 50, follicular |-> 75, ovulation |-> 125, luteal |-> 75]

DEFAULT_DAILY_LIMIT == 4

\* mutant: the product is truncated instead of rounded
getCapacityForPhase_Truncates(phase, userPreferences) ==
    LET base == IF userPreferences.dailyTaskLimit = NULL \/ userPreferences.dailyTaskLimit = 0
                THEN DEFAULT_DAILY_LIMIT ELSE userPreferences.dailyTaskLimit
        multiplier == IF phase \in DOMAIN PHASE_MULTIPLIERS
                      THEN PHASE_MULTIPLIERS[phase] ELSE PHASE_MULTIPLIERS.luteal
    IN  Max(1, FloorDiv(base * multiplier, 100))

getCapacityForPhase(phase, userPreferences) ==
    LET base == IF userPreferences.dailyTaskLimit = NULL \/ userPreferences.dailyTaskLimit = 0
                THEN DEFAULT_DAILY_LIMIT ELSE userPreferences.dailyTaskLimit
        multiplier == IF phase \in DOMAIN PHASE_MULTIPLIERS
                      THEN PHASE_MULTIPLIERS[phase] ELSE PHASE_MULTIPLIERS.luteal
    IN  Max(1, RoundDiv(base * multiplier, 100))

(***************************************************************************)
(* Candidate scorer (taskScoringEngine)                                    *)
(***************************************************************************)
DayNames == <<"Sun", "Mon", "Tue", "Wed", "Thu", "Fri", "Sat">>

getDay(d) == d % 7

getDayName(d) == DayNames[getDay(d) + 1]

calculateEnergyMatchScore(task, phase) ==
    IF task.energyLevel = "none" THEN 50
    ELSE LET perfectMatches == [high   |-> {"ovulation"},
                                medium |-> {"follicular", "luteal"},
                                low    |-> {"luteal", "menstrual"}]
             goodMatches    == [high   |-> {"follicular"},
                                medium |-> {"ovulation"},
                                low    |-> {"follicular"}]
         IN  IF      phase \in perfectMatches[task.energyLevel] THEN 100
             ELSE IF phase \in goodMatches[task.energyLevel]    THEN 60
             ELSE 20

calculateDeadlineUrgencyScore(task, d) ==
    IF task.deadline = NULL THEN 50
    ELSE LET daysUntilDeadline == task.deadline - d
         IN  IF      daysUntilDeadline < 0   THEN 0
             ELSE IF daysUntilDeadline = 0   THEN 30
             ELSE IF daysUntilDeadline = 1   THEN 95
             ELSE IF daysUntilDeadline = 2   THEN 90
             ELSE IF daysUntilDeadline <= 7  THEN 80
             ELSE IF daysUntilDeadline <= 14 THEN 60
             ELSE IF daysUntilDeadline <= 30 THEN 40
             ELSE 20

\* existingTasks.filter(t => t.scheduledDate === dateStr && !t.completed).length
TasksOnDate(d, existingTasks) ==
    Cardinality({i \in 1..Len(existingTasks) :
                    existingTasks[i].scheduledDate = d /\ ~existingTasks[i].completed})

calculateWorkloadBalanceScore(d, existingTasks, phase, userPreferences) ==
    LET capacity    == getCapacityForPhase(phase, userPreferences)
        tasksOnDate == TasksOnDate(d, existingTasks)
    IN  \* utilization = tasksOnDate / capacity, compared without division
        IF      tasksOnDate = 0                   THEN 100
        ELSE IF 10 * tasksOnDate < 3 * capacity   THEN 90
        ELSE IF 2 * tasksOnDate < capacity        THEN 80
        ELSE IF 10 * tasksOnDate < 7 * capacity   THEN 60
        ELSE IF 100 * tasksOnDate < 85 * capacity THEN 40
        ELSE IF tasksOnDate < capacity            THEN 20
        ELSE 0

calculateDayPreferenceScore(task, d) ==
    LET dayName   == getDayName(d)
        isWeekend == getDay(d) \in {0, 6}
    IN  IF task.preferredDays # {}
        THEN IF dayName \in task.preferredDays THEN 100 ELSE 0
        ELSE IF isWeekend THEN 60 ELSE 80

\* default schedulingWeights, in tenths
schedulingWeights ==
    [energyMatch |-> 4, deadlineUrgency |-> 3, workloadBalance |-> 2, dayPreference |-> 1]

scoreDate(d, task, existingTasks, cs, userPreferences) ==
    Once(PhaseOrLuteal(d, cs), LAMBDA phase :
    Once([energyMatch     |-> calculateEnergyMatchScore(task, phase),
          deadlineUrgency |-> calculateDeadlineUrgencyScore(task, d),
          workloadBalance |-> calculateWorkloadBalanceScore(d, existingTasks, phase,
                                                            userPreferences),
          dayPreference   |-> calculateDayPreferenceScore(task, d)],
         LAMBDA breakdown :
        [date       |-> d,
         totalScore |-> breakdown.energyMatch     * schedulingWeights.energyMatch
                      + breakdown.deadlineUrgency * schedulingWeights.deadlineUrgency
                      + breakdown.workloadBalance * schedulingWeights.workloadBalance
                      + breakdown.dayPreference   * schedulingWeights.dayPreference,
         breakdown  |-> breakdown,
         phase      |-> phase]))

(***************************************************************************)
(* Scheduler (taskScheduler).  now is startOfDay(new Date()).              *)
(***************************************************************************)
WINDOW_DAYS == 60

\* isPast(date) negated: today is valid
canScheduleOnDate(d, now) == ~(d < now)

generateCandidateDates(startDate, endDate) ==
    AsTuple([i \in 1..Max(0, endDate - startDate + 1) |-> startDate + i - 1])

\* mutant: completed tasks count toward the load of their date
isDateAvailable_CountsCompleted(d, existingTasks, phase, userPreferences, now) ==
    IF ~canScheduleOnDate(d, now) THEN FALSE
    ELSE Cardinality({i \in 1..Len(existingTasks) : existingTasks[i].scheduledDate = d})
             < getCapacityForPhase(phase, userPreferences)

isDateAvailable(d, existingTasks, phase, userPreferences, now) ==
    IF ~canScheduleOnDate(d, now) THEN FALSE
    ELSE TasksOnDate(d, existingTasks) < getCapacityForPhase(phase, userPreferences)

\* candidates that are not past and strictly before the deadline
NotPastBeforeDeadline(task, startDate, endDate, now) ==
    LET all     == generateCandidateDates(startDate, endDate)
        notPast == SelectSeq(all, LAMBDA d : canScheduleOnDate(d, now))
    IN  IF task.deadline # NULL
        THEN SelectSeq(notPast, LAMBDA d : d < task.deadline)
        ELSE notPast

\* mutant: an unstable sort that leaves the last of the equal top scores first
BestScoredDate_LastOfTies(candidates, task, existingTasks, cs, userPreferences) ==
    Once(AsTuple([i \in 1..Len(candidates) |->
             scoreDate(candidates[i], task, existingTasks, cs, userPreferences)]),
         LAMBDA scored :
             Once(SortScoredDesc(scored)[1].totalScore, LAMBDA top :
                 scored[CHOOSE i \in 1..Len(scored) :
                     /\ scored[i].totalScore = top
                     /\ \A j \in (i + 1)..Len(scored) : scored[j].totalScore # top].date))

\* mutant: the first candidate is returned without looking at the scores
BestScoredDate_FirstCandidate(candidates, task, existingTasks, cs, userPreferences) ==
    candidates[1]

\* scored.sort(...); scored[0].date
BestScoredDate(candidates, task, existingTasks, cs, userPreferences) ==
    Once(AsTuple([i \in 1..Len(candidates) |->
             scoreDate(candidates[i], task, existingTasks, cs, userPreferences)]),
         LAMBDA scored : SortScoredDesc(scored)[1].date)

\* mutant: the fallback relaxes the deadline together with the capacity
findBestFallbackDate_IgnoresDeadline(task, existingTasks, cs, startDate, endDate, userPreferences, now) ==
    Once(SelectSeq(generateCandidateDates(startDate, endDate),
                   LAMBDA d : canScheduleOnDate(d, now)),
         LAMBDA candidates :
             IF Len(candidates) > 0
             THEN BestScoredDate(candidates, task, existingTasks, cs, userPreferences)
             ELSE now + 1)

\* mutant: the fallback goes straight to the last resort
findBestFallbackDate_AlwaysTomorrow(task, existingTasks, cs, startDate, endDate, userPreferences, now) ==
    now + 1

findBestFallbackDate(task, existingTasks, cs, startDate, endDate, userPreferences, now) ==
    Once(NotPastBeforeDeadline(task, startDate, endDate, now), LAMBDA candidates :
        IF Len(candidates) > 0
        THEN BestScoredDate(candidates, task, existingTasks, cs, userPreferences)
        ELSE now + 1)

\* mutant: hard constraint 3 (capacity) is never applied
scheduleTask_NoCapacity(task, existingTasks, cs, userPreferences, now) ==
    LET maxDate == IF task.deadline # NULL THEN task.deadline ELSE now + WINDOW_DAYS
    IN  findBestFallbackDate(task, existingTasks, cs, now, maxDate, userPreferences, now)

scheduleTask(task, existingTasks, cs, userPreferences, now) ==
    LET maxDate == IF task.deadline # NULL THEN task.deadline ELSE now + WINDOW_DAYS
        hard12  == NotPastBeforeDeadline(task, now, maxDate, now)
    IN  Once(SelectSeq(hard12, LAMBDA d :
                 isDateAvailable(d, existingTasks, PhaseOrLuteal(d, cs), userPreferences,
                                 now)),
             LAMBDA candidates :
                 IF Len(candidates) > 0
                 THEN BestScoredDate(candidates, task, existingTasks, cs, userPreferences)
                 ELSE findBestFallbackDate(task, existingTasks, cs, now, maxDate,
                                           userPreferences, now))

(***************************************************************************)
(* Cycle store (storageHelpers).  db is db.cycles in primary-key order;    *)
(* the key "cycle-<startDate>-<uuid>" orders by start date.                *)
(***************************************************************************)
\* db.cycles.orderBy('startDate').reverse().toArray()
getAllCycles(db) == SortCyclesDesc(db)

OVERLAP_ASSUMED_DAYS == 7

\* mutant: nothing is deleted before the new cycle is stored
removeOverlappingCycles_DeletesNothing(db, newStartDate, newEndDate) == db

removeOverlappingCycles(db, newStartDate, newEndDate) ==
    LET newStart == newStartDate
        newEnd   == IF newEndDate # NULL THEN newEndDate
                    ELSE newStart + OVERLAP_ASSUMED_DAYS
        existingEnd(cycle) == IF cycle.endDate # NULL THEN cycle.endDate
                              ELSE cycle.phases.menstrual.end
        hasOverlap(cycle)  == newStart <= existingEnd(cycle) /\ newEnd >= cycle.startDate
    IN  SelectSeq(db, LAMBDA cycle : ~hasOverlap(cycle))

logCycle(db, startDate, endDate) ==
    LET kept           == removeOverlappingCycles(db, startDate, endDate)
        existingCycles == getAllCycles(kept)
        cycleEntry     == createCycleEntry(startDate, endDate, existingCycles)
    IN  SortCyclesAsc(Append(kept, cycleEntry))

updateAllCycleLengths(db) ==
    LET allCycles == getAllCycles(db)
        updated   == updateCycleLengths(allCycles)
        newLength(cycle) ==
            (CHOOSE u \in {updated[i] : i \in 1..Len(updated)} :
                 u.startDate = cycle.startDate).cycleLength
    IN  AsTuple([i \in 1..Len(db) |-> [db[i] EXCEPT !.cycleLength = newLength(db[i])]])

\* saveAndAdvance (onboarding) and saveCycle (period sidebar)
saveCycle(db, startDate, endDate) ==
    Once(logCycle(db, startDate, endDate), LAMBDA logged : updateAllCycleLengths(logged))

(***************************************************************************)
(* Bounds and input sets of the checks                                     *)
(***************************************************************************)
MaxCycles == 2
MaxTasks  == 2

\* day 98 is a Sunday, day 100 a Tuesday
TodaySet == {98, 100}

\* periods the user may log: start <= today, end null or in start..today
PeriodInputs ==
    {[startDate |-> 56, endDate |-> NULL],
     [startDate |-> 86, endDate |-> 89]}

RECURSIVE LogAll(_)
\* the store after logging the periods of a sequence, first to last
LogAll(ps) ==
    IF ps = <<>> THEN <<>>
    ELSE LET p == ps[Len(ps)]
         IN  Once(LogAll(SubSeq(ps, 1, Len(ps) - 1)),
                  LAMBDA db : saveCycle(db, p.startDate, p.endDate))

SeqsUpTo(S, n) == UNION {[1..k -> S] : k \in 0..n}

CycleStores == {LogAll(ps) : ps \in SeqsUpTo(PeriodInputs, MaxCycles)}

TaskRecord(id, energy, deadline, days, date, done, auto) ==
    [id |-> id, energyLevel |-> energy, deadline |-> deadline, preferredDays |-> days,
     scheduledDate |-> date, completed |-> done, autoScheduled |-> auto]

\* what an existing task may look like to the scheduler: its date, as an
\* offset from today, and whether it is completed
TaskSlots == <<[off |-> 0, done |-> FALSE], [off |-> 1, done |-> FALSE],
               [off |-> 0, done |-> TRUE]>>

TaskLists(now) ==
    {AsTuple([i \in 1..Len(pick) |->
         TaskRecord(i, "none", NULL, {}, now + TaskSlots[pick[i]].off,
                    TaskSlots[pick[i]].done, FALSE)]) :
       pick \in {q \in SeqsUpTo(1..Len(TaskSlots), MaxTasks) :
                    \A i \in 1..(Len(q) - 1) : q[i] <= q[i + 1]}}

EnergyLevels == {"none", "high"}
DeadlineOffsets == {NULL, 0, 1, 2}
PreferredDaySets == {{}, {"Sat", "Sun"}}

NewTasks(now) ==
    {TaskRecord(0, e, IF off = NULL THEN NULL ELSE now + off, days, NULL, FALSE, TRUE) :
        e \in EnergyLevels, off \in DeadlineOffsets, days \in PreferredDaySets}

DailyLimits == {1, 4}

Preferences ==
    {[dailyTaskLimit |-> l, reschedulingBehavior |-> b] :
        l \in DailyLimits, b \in {"ask_permission"}}

(***************************************************************************)
(* Scheduler harness: the inputs are drawn in the initial state, the       *)
(* action applies scheduleTask to them.                                    *)
(***************************************************************************)
NoOut == [op |-> "none"]

InitSched ==
    /\ today \in TodaySet
    /\ cycles \in CycleStores
    /\ tasks \in TaskLists(today)
    /\ prefs \in Preferences
    /\ arg \in NewTasks(today)
    /\ history = <<>>
    /\ pending = <<>>
    /\ out = NoOut

DoScheduleTask ==
    /\ out = NoOut
    /\ \E cs \in {getAllCycles(cycles)} :
           out' = [op |-> "scheduleTask",
                   date |-> scheduleTask(arg, tasks, cs, prefs, today)]
    /\ UNCHANGED <<today, cycles, tasks, history, prefs, arg, pending>>

NextSched == DoScheduleTask

SpecSched == InitSched /\ [][NextSched]_vars

(***************************************************************************)
(* Claims about scheduleTask, checked under SpecSched                      *)
(***************************************************************************)
Scheduled == out.op = "scheduleTask"

\* the candidate window of the call: today through the deadline or today + 60
WindowDates == today..(IF arg.deadline # NULL THEN arg.deadline ELSE today + WINDOW_DAYS)

OpenCapacity(d) ==
    TasksOnDate(d, tasks) < getCapacityForPhase(PhaseOrLuteal(d, getAllCycles(cycles)), prefs)

\* not past and strictly before the deadline
RelaxedDates == {d \in WindowDates : d >= today /\ (arg.deadline = NULL \/ d < arg.deadline)}

\* passing all three hard filters
StrictDates == {d \in RelaxedDates : OpenCapacity(d)}

ScoreOf(d) == scoreDate(d, arg, tasks, getAllCycles(cycles), prefs).totalScore

BestIn(S, d) == d \in S /\ \A e \in S : ScoreOf(e) <= ScoreOf(d)

\* C1 as stated: the returned date is never on or after an explicit deadline
\* and never before today.
C1_Original ==
    Scheduled => /\ out.date >= today
                 /\ arg.deadline # NULL => out.date < arg.deadline

\* C1 amended: the returned date is never before today, and it is strictly
\* before an explicit deadline whenever that deadline is after today.
C1_Amended ==
    Scheduled => /\ out.date >= today
                 /\ (arg.deadline # NULL /\ arg.deadline > today) => out.date < arg.deadline

\* a deadline two days off, today and tomorrow both full: the fallback ran
C1_Witness ==
    /\ Scheduled
    /\ arg.deadline = today + 2
    /\ StrictDates = {}
    /\ out.date \in {today, today + 1}

\* C2: the relaxations are applied in order and a date is always returned:
\* a best-scoring date passing all hard filters when there is one, else a
\* best-scoring non-past date before the deadline when there is one, else
\* tomorrow; the last case is exactly a deadline today or in the past.
C2_RelaxationOrder ==
    Scheduled =>
        /\ out.date \in Int
        /\ StrictDates # {} => BestIn(StrictDates, out.date)
        /\ (StrictDates = {} /\ RelaxedDates # {}) => BestIn(RelaxedDates, out.date)
        /\ RelaxedDates = {} => out.date = today + 1
        /\ RelaxedDates = {} <=> (arg.deadline # NULL /\ arg.deadline <= today)

\* the capacity-relaxed tier chose between two over-capacity dates
C2_Witness ==
    /\ Scheduled
    /\ StrictDates = {}
    /\ Cardinality(RelaxedDates) = 2
    /\ out.date \in RelaxedDates

\* C6 as stated: with no existing tasks and no deadline the result is today.
C6_Original ==
    (Scheduled /\ tasks = <<>> /\ arg.deadline = NULL) => out.date = today

\* C6 amended: with no existing tasks and no deadline the result is the
\* earliest date of today..today+60 with the highest total score; it is
\* today exactly when no later date of the window scores higher than today.
C6_Amended ==
    (Scheduled /\ tasks = <<>> /\ arg.deadline = NULL) =>
        /\ BestIn(today..(today + WINDOW_DAYS), out.date)
        /\ \A d \in today..(out.date - 1) : ScoreOf(d) < ScoreOf(out.date)
        /\ out.date = today <=>
               \A d \in today..(today + WINDOW_DAYS) : ScoreOf(d) <= ScoreOf(today)

\* no tasks, no deadline, and today is returned although later dates tie
C6_Witness ==
    /\ Scheduled /\ tasks = <<>> /\ arg.deadline = NULL
    /\ out.date = today
    /\ \E d \in (today + 1)..(today + WINDOW_DAYS) : ScoreOf(d) = ScoreOf(today)

\* C7: with the deadline tomorrow and no open capacity on any date of the
\* window, the fallback returns a date strictly before the deadline when
\* one exists (it is today), and tomorrow otherwise.
C7_DeadlineTomorrowNoCapacity ==
    (Scheduled /\ arg.deadline = today + 1 /\ \A d \in WindowDates : ~OpenCapacity(d)) =>
        IF RelaxedDates # {}
        THEN out.date \in RelaxedDates /\ out.date < arg.deadline /\ out.date = today
        ELSE out.date = today + 1

C7_Witness ==
    /\ Scheduled
    /\ arg.deadline = today + 1
    /\ \A d \in WindowDates : ~OpenCapacity(d)
    /\ out.date = today

(***************************************************************************)
(* Phase calendar and period log: periods are logged one after another     *)
(* (saveAndAdvance / saveCycle), dates are resolved against the store and  *)
(* phase windows are computed from start, duration and length.             *)
(***************************************************************************)
LogDays == {100}

\* periods logged in this specification; 56 and 80 lie 24 days apart, so
\* the windows of the older cycle reach into the newer one; the period
\* starting on day 58 overlaps the one starting on day 56
LoggedPeriods ==
    {[startDate |-> 56, endDate |-> NULL],
     [startDate |-> 58, endDate |-> NULL],
     [startDate |-> 80, endDate |-> NULL],
     [startDate |-> 86, endDate |-> 89]}

QueryDates == 40..130

MaxMenstrual == 14
ExtraLength  == 2

PhaseInputs ==
    UNION {{[start |-> s, menstrualDuration |-> m, cycleLength |-> m + 15 + x] :
               s \in {56, 86}, x \in 0..ExtraLength} : m \in 1..MaxMenstrual}

InitCycle ==
    /\ today \in LogDays
    /\ cycles = <<>>
    /\ tasks = <<>>
    /\ history = <<>>
    /\ prefs \in {[dailyTaskLimit |-> DEFAULT_DAILY_LIMIT, reschedulingBehavior |-> "ask_permission"]}
    /\ arg = NoOut
    /\ pending = <<>>
    /\ out = NoOut

\* saveAndAdvance / saveCycle: logCycle, then updateAllCycleLengths; removed
\* is the removedCount of removeOverlappingCycles.  The store is kept to
\* MaxCycles cycles.
LogPeriod ==
    \E p \in LoggedPeriods :
        \E kept \in {removeOverlappingCycles(cycles, p.startDate, p.endDate)} :
            /\ Len(kept) < MaxCycles
            /\ p.startDate <= today
            /\ cycles' = saveCycle(cycles, p.startDate, p.endDate)
            /\ arg' = p
            /\ out' = [op |-> "saveCycle", removed |-> Len(cycles) - Len(kept)]
            /\ UNCHANGED <<today, tasks, history, prefs, pending>>

DoGetPhase ==
    \E d \in QueryDates :
        /\ arg' = [date |-> d]
        /\ out' = [op |-> "getPhaseForDateAdvanced",
                   phase |-> getPhaseForDateAdvanced(d, getAllCycles(cycles))]
        /\ UNCHANGED <<today, cycles, tasks, history, prefs, pending>>

NextCycle == LogPeriod \/ DoGetPhase

SpecCycle == InitCycle /\ [][NextCycle]_vars

\* Phase-window harness: start, duration and length are drawn in the initial
\* state, the action applies calculatePhasesFromStart to them.
InitPhases ==
    /\ today \in LogDays
    /\ cycles = <<>>
    /\ tasks = <<>>
    /\ history = <<>>
    /\ prefs \in {[dailyTaskLimit |-> DEFAULT_DAILY_LIMIT, reschedulingBehavior |-> "ask_permission"]}
    /\ arg \in PhaseInputs
    /\ pending = <<>>
    /\ out = NoOut

DoCalculatePhases ==
    /\ out = NoOut
    /\ out' = [op |-> "calculatePhasesFromStart",
               phases |-> calculatePhasesFromStart(arg.start, arg.menstrualDuration,
                                                   arg.cycleLength)]
    /\ UNCHANGED <<today, cycles, tasks, history, prefs, arg, pending>>

NextPhases == DoCalculatePhases

SpecPhases == InitPhases /\ [][NextPhases]_vars

(***************************************************************************)
(* Claims about the phase calendar, checked under SpecCycle and SpecPhases *)
(***************************************************************************)
StoredCycles == {cycles[i] : i \in 1..Len(cycles)}

Covering(d) == {c \in StoredCycles : getPhaseForDate(d, c) # "none"}

NewestCovering(d) ==
    CHOOSE c \in Covering(d) : \A e \in Covering(d) : e.startDate <= c.startDate

\* what forward prediction or backward projection alone would answer
PredictionOnly(d) ==
    LET sorted    == getAllCycles(cycles)
        predicted == PredictedPhase(d, sorted, sorted)
    IN  IF predicted # "none" THEN predicted ELSE ProjectedPhase(d, sorted, sorted)

\* C3: a date inside a phase window of a logged cycle resolves to the phase
\* the windows of the newest-start cycle holding it give, never to a
\* predicted or projected phase.
C3_LoggedDataWins ==
    (out.op = "getPhaseForDateAdvanced" /\ Covering(arg.date) # {}) =>
        out.phase = getPhaseForDate(arg.date, NewestCovering(arg.date))

\* a date two logged cycles both cover, on which prediction disagrees
C3_Witness ==
    /\ out.op = "getPhaseForDateAdvanced"
    /\ Cardinality(Covering(arg.date)) = 2
    /\ out.phase = getPhaseForDate(arg.date, NewestCovering(arg.date))
    /\ PredictionOnly(arg.date) \notin {"none", out.phase}

Contiguous(phases, start, length) ==
    /\ phases.menstrual.start  = start
    /\ phases.follicular.start = phases.menstrual.end + 1
    /\ phases.ovulation.start  = phases.follicular.end + 1
    /\ phases.luteal.start     = phases.ovulation.end + 1
    /\ phases.luteal.end       = start + length - 1

NoInvertedWindow(phases) ==
    \A name \in DOMAIN phases : phases[name].start <= phases[name].end

\* C4: every stored cycle's windows are contiguous, none has its end before
\* its start, and once cycleLength is set the luteal window ends on
\* startDate + cycleLength - 1.
C4_StoredWindowsCoverCycle ==
    \A c \in StoredCycles :
        /\ NoInvertedWindow(c.phases)
        /\ c.phases.follicular.start = c.phases.menstrual.end + 1
        /\ c.phases.ovulation.start  = c.phases.follicular.end + 1
        /\ c.phases.luteal.start     = c.phases.ovulation.end + 1
        /\ c.cycleLength # NULL => c.phases.luteal.end = c.startDate + c.cycleLength - 1

\* the phase of each cycle day 1..L, read back through getPhaseForDate
DayPhases(phases, start, length) ==
    [i \in 1..length |-> getPhaseForDate(start + i - 1, [phases |-> phases])]

\* the days of each phase form one non-empty run, the runs in fixed order
OneRunEach(ph) ==
    \E a, b, c \in 1..Len(ph) :
        /\ a < b /\ b < c /\ c < Len(ph)
        /\ \A i \in 1..Len(ph) :
              ph[i] = IF i <= a THEN "menstrual"
                      ELSE IF i <= b THEN "follicular"
                      ELSE IF i <= c THEN "ovulation"
                      ELSE "luteal"

PhasesComputed == out.op = "calculatePhasesFromStart"

WellFormedWindows ==
    /\ Contiguous(out.phases, arg.start, arg.cycleLength)
    /\ NoInvertedWindow(out.phases)
    /\ OneRunEach(AsTuple(DayPhases(out.phases, arg.start, arg.cycleLength)))

\* C5 as stated: for every M >= 1 and L >= M + 15 the windows are ordered,
\* contiguous and cover days 1..L, each phase one run of days.
C5_Original ==
    (PhasesComputed /\ arg.menstrualDuration >= 1
        /\ arg.cycleLength >= arg.menstrualDuration + 15) => WellFormedWindows

\* C5 amended: the same for 1 <= M <= 12 and L >= M + 15.
C5_Amended ==
    (PhasesComputed /\ arg.menstrualDuration >= 1 /\ arg.menstrualDuration <= 12
        /\ arg.cycleLength >= arg.menstrualDuration + 15) => WellFormedWindows

C5_Witness ==
    /\ PhasesComputed
    /\ arg.menstrualDuration = 12
    /\ arg.cycleLength = 27
    /\ WellFormedWindows

(***************************************************************************)
(* Task store and task history (storageHelpers)                            *)
(***************************************************************************)
\* db.taskHistory.add({taskId, action, metadata, timestamp})
logTaskHistory(hist, taskId, action, metadata) ==
    Append(hist, [taskId |-> taskId, action |-> action, metadata |-> metadata])

\* db.tasks.update(taskId, updates): the named fields of the record with that key
TasksUpdate(db, taskId, updates) ==
    AsTuple([i \in 1..Len(db) |->
        IF db[i].id = taskId
        THEN [f \in DOMAIN db[i] |-> IF f \in DOMAIN updates THEN updates[f] ELSE db[i][f]]
        ELSE db[i]])

\* updateTask writes the record, then logs an 'updated' history entry
updateTask(db, hist, taskId, updates) ==
    [tasks   |-> TasksUpdate(db, taskId, updates),
     history |-> logTaskHistory(hist, taskId, "updated", [updates |-> updates])]

(***************************************************************************)
(* Rescheduling advisor (reschedulingEngine)                               *)
(***************************************************************************)
\* improvement >= 20 points, in tenths of a point
RESCHEDULE_THRESHOLD == 200

scoreCurrentDate(task, allTasks, cs, userPreferences) ==
    IF task.scheduledDate = NULL
    THEN [date |-> NULL, totalScore |-> 0,
          breakdown |-> [energyMatch |-> 0, deadlineUrgency |-> 0,
                         workloadBalance |-> 0, dayPreference |-> 0],
          phase |-> "none"]
    ELSE scoreDate(task.scheduledDate, task, allTasks, cs, userPreferences)

buildReason(current, proposed) ==
    LET eDiff == proposed.breakdown.energyMatch - current.breakdown.energyMatch
        wDiff == proposed.breakdown.workloadBalance - current.breakdown.workloadBalance
    IN  IF eDiff > 20 /\ wDiff > 20 THEN "better energy match + lighter workload"
        ELSE IF eDiff > 20 THEN "better energy match"
        ELSE IF wDiff > 20 THEN "lighter workload"
        ELSE "overall better fit"

\* mutant: completed tasks stay eligible
isEligible_IgnoresCompleted(t, now) ==
    /\ t.autoScheduled
    /\ t.scheduledDate # NULL
    /\ t.scheduledDate > now

\* mutant: tasks scheduled today stay eligible
isEligible_IncludesToday(t, now) ==
    /\ t.autoScheduled
    /\ ~t.completed
    /\ t.scheduledDate # NULL
    /\ t.scheduledDate >= now

\* mutant: manually placed tasks stay eligible
isEligible_IgnoresAutoFlag(t, now) ==
    /\ ~t.completed
    /\ t.scheduledDate # NULL
    /\ t.scheduledDate > now

\* the filter of checkAndReschedule: future, incomplete, auto-scheduled
isEligible(t, now) ==
    /\ t.autoScheduled
    /\ ~t.completed
    /\ t.scheduledDate # NULL
    /\ t.scheduledDate > now

\* mutant: the threshold is exclusive
SuggestionFor_StrictThreshold(task, allTasks, cs, userPreferences, now) ==
    Once(scoreCurrentDate(task, allTasks, cs, userPreferences), LAMBDA currentScore :
    Once(scheduleTask(task, allTasks, cs, userPreferences, now), LAMBDA bestDate :
    Once(scoreDate(bestDate, task, allTasks, cs, userPreferences), LAMBDA proposedScore :
        LET improvement == proposedScore.totalScore - currentScore.totalScore
        IN  IF bestDate # task.scheduledDate /\ improvement > RESCHEDULE_THRESHOLD
            THEN <<[task |-> task, currentDate |-> task.scheduledDate,
                    currentScore |-> RoundDiv(currentScore.totalScore, 10),
                    suggestedDate |-> bestDate,
                    suggestedScore |-> RoundDiv(proposedScore.totalScore, 10),
                    scoreImprovement |-> RoundDiv(improvement, 10),
                    reason |-> buildReason(currentScore, proposedScore)]>>
            ELSE <<>>)))

\* one iteration of the loop over the candidates: zero or one suggestion
SuggestionFor(task, allTasks, cs, userPreferences, now) ==
    Once(scoreCurrentDate(task, allTasks, cs, userPreferences), LAMBDA currentScore :
    Once(scheduleTask(task, allTasks, cs, userPreferences, now), LAMBDA bestDate :
    Once(scoreDate(bestDate, task, allTasks, cs, userPreferences), LAMBDA proposedScore :
        LET improvement == proposedScore.totalScore - currentScore.totalScore
        IN  IF bestDate = task.scheduledDate THEN <<>>
            ELSE IF improvement >= RESCHEDULE_THRESHOLD
            THEN <<[task |-> task, currentDate |-> task.scheduledDate,
                    currentScore |-> RoundDiv(currentScore.totalScore, 10),
                    suggestedDate |-> bestDate,
                    suggestedScore |-> RoundDiv(proposedScore.totalScore, 10),
                    scoreImprovement |-> RoundDiv(improvement, 10),
                    reason |-> buildReason(currentScore, proposedScore)]>>
            ELSE <<>>)))

RECURSIVE SuggestionsFor(_, _, _, _, _)
SuggestionsFor(candidates, allTasks, cs, userPreferences, now) ==
    IF candidates = <<>> THEN <<>>
    ELSE SuggestionFor(Head(candidates), allTasks, cs, userPreferences, now)
         \o SuggestionsFor(Tail(candidates), allTasks, cs, userPreferences, now)

\* the suggestions checkAndReschedule builds before it returns or applies them
checkAndRescheduleSuggestions(allTasks, cs, userPreferences, now) ==
    IF Len(cs) = 0 \/ Len(allTasks) = 0 THEN <<>>
    ELSE SuggestionsFor(SelectSeq(allTasks, LAMBDA t : isEligible(t, now)),
                        allTasks, cs, userPreferences, now)

\* mutant: an applied move marks the task as manually placed
applyReschedulingOne_ClearsAutoFlag(db, hist, s) ==
    LET u == updateTask(db, hist, s.task.id,
                        [scheduledDate |-> s.suggestedDate, autoScheduled |-> FALSE])
    IN  [tasks   |-> u.tasks,
         history |-> logTaskHistory(u.history, s.task.id, "rescheduled",
                        [trigger |-> "cycle_update", from |-> s.currentDate,
                         to |-> s.suggestedDate, scoreImprovement |-> s.scoreImprovement,
                         reason |-> s.reason]),
         task    |-> [s.task EXCEPT !.scheduledDate = s.suggestedDate]]

\* mutant: an applied move leaves no 'rescheduled' history record
applyReschedulingOne_NoHistory(db, hist, s) ==
    LET u == updateTask(db, hist, s.task.id,
                        [scheduledDate |-> s.suggestedDate, autoScheduled |-> TRUE])
    IN  [tasks   |-> u.tasks,
         history |-> u.history,
         task    |-> [s.task EXCEPT !.scheduledDate = s.suggestedDate]]

\* one iteration of applyRescheduling: persist, log, report
applyReschedulingOne(db, hist, s) ==
    LET u == updateTask(db, hist, s.task.id,
                        [scheduledDate |-> s.suggestedDate, autoScheduled |-> TRUE])
    IN  [tasks   |-> u.tasks,
         history |-> logTaskHistory(u.history, s.task.id, "rescheduled",
                        [trigger |-> "cycle_update", from |-> s.currentDate,
                         to |-> s.suggestedDate, scoreImprovement |-> s.scoreImprovement,
                         reason |-> s.reason]),
         task    |-> [s.task EXCEPT !.scheduledDate = s.suggestedDate]]

(***************************************************************************)
(* Rescheduling run: the store snapshot is drawn in the initial state;     *)
(* CheckAndReschedule is the call up to its first store write, and         *)
(* ApplyReschedulingStep one iteration of applyRescheduling.               *)
(***************************************************************************)
\* stored tasks the advisor may meet: energy, date as an offset from today,
\* completed, autoScheduled
StoredTaskKinds ==
    <<[energy |-> "high", off |-> 1, done |-> FALSE, auto |-> TRUE],
      [energy |-> "none", off |-> 2, done |-> FALSE, auto |-> TRUE],
      [energy |-> "high", off |-> 1, done |-> TRUE,  auto |-> TRUE],
      [energy |-> "high", off |-> 1, done |-> FALSE, auto |-> FALSE],
      [energy |-> "high", off |-> 0, done |-> FALSE, auto |-> TRUE]>>

StoredTaskLists(now) ==
    {AsTuple([i \in 1..Len(pick) |->
         TaskRecord(i, StoredTaskKinds[pick[i]].energy, NULL, {},
                    now + StoredTaskKinds[pick[i]].off,
                    StoredTaskKinds[pick[i]].done, StoredTaskKinds[pick[i]].auto)]) :
       pick \in {q \in SeqsUpTo(1..Len(StoredTaskKinds), MaxTasks) :
                    \A i \in 1..(Len(q) - 1) : q[i] <= q[i + 1]}}

ReschedulingBehaviors == {"automatic", "ask_permission"}

ReschedulePreferences ==
    {[dailyTaskLimit |-> l, reschedulingBehavior |-> b] :
        l \in DailyLimits, b \in ReschedulingBehaviors}

InitResched ==
    /\ today \in TodaySet
    /\ cycles \in CycleStores
    /\ tasks \in StoredTaskLists(today)
    /\ prefs \in ReschedulePreferences
    /\ arg = NoOut
    /\ history = <<>>
    /\ pending = <<>>
    /\ out = NoOut

CheckAndReschedule ==
    /\ out = NoOut
    /\ \E cs \in {getAllCycles(cycles)} :
       \E suggestions \in {checkAndRescheduleSuggestions(tasks, cs, prefs, today)} :
           /\ arg' = [allTasks |-> tasks, cycles |-> cs, userPreferences |-> prefs]
           /\ IF suggestions = <<>>
              THEN /\ out' = [op |-> "checkAndReschedule",
                              mode |-> prefs.reschedulingBehavior,
                              suggestions |-> <<>>, rescheduled |-> <<>>]
                   /\ pending' = <<>>
              ELSE IF prefs.reschedulingBehavior = "automatic"
              THEN /\ out' = [op |-> "applyRescheduling", mode |-> "automatic",
                              suggestions |-> suggestions, rescheduled |-> <<>>]
                   /\ pending' = suggestions
              ELSE /\ out' = [op |-> "checkAndReschedule", mode |-> "suggestions",
                              suggestions |-> suggestions, rescheduled |-> <<>>]
                   /\ pending' = <<>>
    /\ UNCHANGED <<today, cycles, tasks, history, prefs>>

ApplyReschedulingStep ==
    /\ pending # <<>>
    /\ \E r \in {applyReschedulingOne(tasks, history, Head(pending))} :
           /\ tasks' = r.tasks
           /\ history' = r.history
           /\ out' = [out EXCEPT !.rescheduled = Append(@, r.task),
                                 !.op = IF Len(pending) = 1 THEN "checkAndReschedule"
                                        ELSE @]
    /\ pending' = Tail(pending)
    /\ UNCHANGED <<today, cycles, prefs, arg>>

NextResched == CheckAndReschedule \/ ApplyReschedulingStep

SpecResched == InitResched /\ [][NextResched]_vars

(***************************************************************************)
(* Claims about checkAndReschedule, checked under SpecResched              *)
(***************************************************************************)
\* the call has been made (arg holds the input snapshot)
Called == out # NoOut

\* the call has returned
Returned == out # NoOut /\ out.op = "checkAndReschedule"

SnapshotTask(id) ==
    CHOOSE t \in {arg.allTasks[i] : i \in 1..Len(arg.allTasks)} : t.id = id

StoredTask(id) == CHOOSE t \in {tasks[i] : i \in 1..Len(tasks)} : t.id = id

SuggestedIds == {out.suggestions[k].task.id : k \in 1..Len(out.suggestions)}

RescheduledIds == {out.rescheduled[k].id : k \in 1..Len(out.rescheduled)}

EligibleInSnapshot(t) ==
    /\ t.autoScheduled = TRUE
    /\ t.completed = FALSE
    /\ t.scheduledDate # NULL
    /\ t.scheduledDate > today

\* C8: every task in the suggestions or rescheduled lists was, in the input
\* snapshot, autoScheduled, not completed and scheduled strictly after today;
\* a completed, manually placed or not-future task is never proposed, and
\* its stored record is never changed.
C8_OnlyEligibleProposedOrMoved ==
    Called =>
        /\ \A id \in SuggestedIds \cup RescheduledIds :
               EligibleInSnapshot(SnapshotTask(id))
        /\ \A i \in 1..Len(arg.allTasks) :
               ~EligibleInSnapshot(arg.allTasks[i]) =>
                   /\ arg.allTasks[i].id \notin SuggestedIds \cup RescheduledIds
                   /\ StoredTask(arg.allTasks[i].id) = arg.allTasks[i]

\* an automatic run has moved a task while the snapshot also held a
\* completed, manual or not-future task
C8_Witness ==
    /\ Returned
    /\ RescheduledIds # {}
    /\ \E i \in 1..Len(arg.allTasks) : ~EligibleInSnapshot(arg.allTasks[i])

BestDateOf(t) ==
    scheduleTask(t, arg.allTasks, arg.cycles, arg.userPreferences, today)

ImprovementOf(t) ==
    scoreDate(BestDateOf(t), t, arg.allTasks, arg.cycles, arg.userPreferences).totalScore
    - scoreDate(t.scheduledDate, t, arg.allTasks, arg.cycles,
                arg.userPreferences).totalScore

WorthMoving(t) ==
    /\ BestDateOf(t) # t.scheduledDate
    /\ ImprovementOf(t) >= RESCHEDULE_THRESHOLD

ProposedFor(t) ==
    \E k \in 1..Len(out.suggestions) :
        /\ out.suggestions[k].task = t
        /\ out.suggestions[k].suggestedDate = BestDateOf(t)

\* C9 as stated: a move is proposed for an eligible task if and only if the
\* scheduler's best date differs from its current date and the total score
\* improves by at least 20 points.
C9_Original ==
    Called =>
        \A i \in 1..Len(arg.allTasks) :
            EligibleInSnapshot(arg.allTasks[i]) =>
                (ProposedFor(arg.allTasks[i]) <=> WorthMoving(arg.allTasks[i]))

\* C9 amended: the equivalence holds whenever the cycle list passed to
\* checkAndReschedule is not empty; with an empty cycle list nothing is
\* proposed.
C9_Amended ==
    Called =>
        /\ Len(arg.cycles) > 0 =>
               \A i \in 1..Len(arg.allTasks) :
                   EligibleInSnapshot(arg.allTasks[i]) =>
                       (ProposedFor(arg.allTasks[i]) <=> WorthMoving(arg.allTasks[i]))
        /\ Len(arg.cycles) = 0 => out.suggestions = <<>>

\* with logged cycles, an eligible task is proposed on an improvement of
\* exactly 20 points
C9_Witness ==
    /\ Called
    /\ Len(arg.cycles) > 0
    /\ \E i \in 1..Len(arg.allTasks) :
        /\ EligibleInSnapshot(arg.allTasks[i])
        /\ ProposedFor(arg.allTasks[i])
        /\ ImprovementOf(arg.allTasks[i]) = RESCHEDULE_THRESHOLD

RescheduledHistory == SelectSeq(history, LAMBDA h : h.action = "rescheduled")

\* C10: in automatic mode the returned run has applied every suggestion
\* (stored scheduledDate is the suggested date, autoScheduled is true, one
\* 'rescheduled' history record per suggestion) and reports exactly those
\* tasks as rescheduled; in any other mode nothing is written to the store,
\* rescheduled is empty and the suggestions are returned.
C10_AutomaticAppliesOthersOnlyReport ==
    /\ (Returned /\ arg.userPreferences.reschedulingBehavior = "automatic") =>
        /\ Len(out.rescheduled) = Len(out.suggestions)
        /\ Len(RescheduledHistory) = Len(out.suggestions)
        /\ \A k \in 1..Len(out.suggestions) :
            LET s == out.suggestions[k]
            IN  /\ StoredTask(s.task.id).scheduledDate = s.suggestedDate
                /\ StoredTask(s.task.id).autoScheduled = TRUE
                /\ out.rescheduled[k] = [s.task EXCEPT !.scheduledDate = s.suggestedDate]
                /\ RescheduledHistory[k].taskId = s.task.id
                /\ RescheduledHistory[k].metadata.from = s.currentDate
                /\ RescheduledHistory[k].metadata.to = s.suggestedDate
        /\ \A i \in 1..Len(arg.allTasks) :
               arg.allTasks[i].id \notin SuggestedIds =>
                   StoredTask(arg.allTasks[i].id) = arg.allTasks[i]
        /\ out.suggestions =
               checkAndRescheduleSuggestions(arg.allTasks, arg.cycles,
                                             arg.userPreferences, today)
    /\ (Called /\ arg.userPreferences.reschedulingBehavior # "automatic") =>
        /\ Returned
        /\ tasks = arg.allTasks
        /\ history = <<>>
        /\ pending = <<>>
        /\ out.rescheduled = <<>>
        /\ out.suggestions =
               checkAndRescheduleSuggestions(arg.allTasks, arg.cycles,
                                             arg.userPreferences, today)

\* an automatic run has returned after applying two suggestions
C10_Witness ==
    /\ Returned
    /\ arg.userPreferences.reschedulingBehavior = "automatic"
    /\ Len(out.rescheduled) = 2
    /\ tasks # arg.allTasks

(***************************************************************************)
(* Phase periods (overloadDetector) and pull-forward optimizer             *)
(* (optimizationEngine).  now is startOfDay(new Date()).                   *)
(***************************************************************************)
OVERLOAD_DAYS_AHEAD == 30
PULL_FORWARD_DAYS_AHEAD == 45

\* the loop over i = 0 .. daysAhead - 1: a period starts on the first day and
\* on every day whose phase differs from the day before, and runs to the day
\* before the next start
getUpcomingPhasePeriods(cs, daysAhead, now) ==
    Once(AsTuple([k \in 1..daysAhead |-> PhaseOrLuteal(now + k - 1, cs)]), LAMBDA phase :
        LET starts == {k \in 1..daysAhead : k = 1 \/ phase[k] # phase[k - 1]}
            nth(r) == CHOOSE k \in starts : Cardinality({j \in starts : j < k}) = r - 1
            last(k) == CHOOSE e \in k..daysAhead :
                          /\ \A j \in k..e : j \notin starts \/ j = k
                          /\ e = daysAhead \/ (e + 1) \in starts
        IN  AsTuple([r \in 1..Cardinality(starts) |->
                [phase |-> phase[nth(r)],
                 start |-> now + nth(r) - 1,
                 end   |-> now + last(nth(r)) - 1]]))

\* tasks.filter(t => !t.completed && t.scheduledDate)
ActiveTasks(ts) == SelectSeq(ts, LAMBDA t : ~t.completed /\ t.scheduledDate # NULL)

\* activeTasks.filter(t => t.scheduledDate >= periodStart && t.scheduledDate <= periodEnd)
TasksInPhase(activeTasks, period) ==
    SelectSeq(activeTasks, LAMBDA t :
        t.scheduledDate >= period.start /\ t.scheduledDate <= period.end)

OVULATION_CAPACITY == 5

\* userPreferences = {} : every preference is undefined
NoPreferences == [dailyTaskLimit |-> NULL, reschedulingBehavior |-> "none"]

findBestDateInPeriod(periodStart, periodEnd, task, allTasks, cs, now) ==
    LET start == IF periodStart < now THEN now ELSE periodStart
    IN  Once(generateCandidateDates(start, periodEnd), LAMBDA candidates :
            IF Len(candidates) = 0 THEN periodStart
            ELSE BestScoredDate(candidates, task, allTasks, cs, NoPreferences))

\* .sort(high energy first, then earlier scheduled date)
SortPullCandidates(ts) ==
    LET before(a, b) ==
            \/ a.energyLevel = "high" /\ b.energyLevel # "high"
            \/ /\ (a.energyLevel = "high") = (b.energyLevel = "high")
               /\ a.scheduledDate < b.scheduledDate
        same(a, b) ==
            /\ (a.energyLevel = "high") = (b.energyLevel = "high")
            /\ a.scheduledDate = b.scheduledDate
        rank == [i \in 1..Len(ts) |->
                    1 + Cardinality({j \in 1..Len(ts) :
                          \/ before(ts[j], ts[i])
                          \/ same(ts[j], ts[i]) /\ j < i})]
    IN  SortedByRank(ts, rank)

\* mutant: a deadline no longer keeps a task out of the candidates
PullCandidates_KeepsDeadlines(activeTasks, period, available) ==
    Once(SortPullCandidates(SelectSeq(activeTasks, LAMBDA t :
             /\ t.scheduledDate > period.end
             /\ t.energyLevel \in {"high", "medium"}
             /\ t.autoScheduled)),
         LAMBDA sorted : SubSeq(sorted, 1, IF available < Len(sorted) THEN available ELSE Len(sorted)))

\* mutant: tasks scheduled before or inside the period are candidates too
PullCandidates_AnyDate(activeTasks, period, available) ==
    Once(SortPullCandidates(SelectSeq(activeTasks, LAMBDA t :
             /\ t.deadline = NULL
             /\ t.energyLevel \in {"high", "medium"}
             /\ t.autoScheduled)),
         LAMBDA sorted : SubSeq(sorted, 1, IF available < Len(sorted) THEN available ELSE Len(sorted)))

\* mutant: the candidates are not cut to the free slots
PullCandidates_NoSlice(activeTasks, period, available) ==
    SortPullCandidates(SelectSeq(activeTasks, LAMBDA t :
        /\ t.scheduledDate > period.end
        /\ t.deadline = NULL
        /\ t.energyLevel \in {"high", "medium"}
        /\ t.autoScheduled))

\* activeTasks.filter(...).sort(...).slice(0, available)
PullCandidates(activeTasks, period, available) ==
    Once(SortPullCandidates(SelectSeq(activeTasks, LAMBDA t :
             /\ t.scheduledDate > period.end
             /\ t.deadline = NULL
             /\ t.energyLevel \in {"high", "medium"}
             /\ t.autoScheduled)),
         LAMBDA sorted : SubSeq(sorted, 1, IF available < Len(sorted) THEN available ELSE Len(sorted)))

\* the body of the loop over the ovulation periods: the group pushed for a
\* period, or skip |-> TRUE where the loop continues
PullForwardGroup(period, activeTasks, cs, now) ==
    Once(OVULATION_CAPACITY - Len(TasksInPhase(activeTasks, period)), LAMBDA available :
        IF available < 2 THEN [skip |-> TRUE]
        ELSE Once(PullCandidates(activeTasks, period, available), LAMBDA candidates :
                 IF Len(candidates) = 0 THEN [skip |-> TRUE]
                 ELSE [skip           |-> FALSE,
                       period         |-> period,
                       availableSlots |-> available,
                       candidates     |->
                           AsTuple([i \in 1..Len(candidates) |->
                               [task          |-> candidates[i],
                                currentDate   |-> candidates[i].scheduledDate,
                                suggestedDate |->
                                    findBestDateInPeriod(period.start, period.end,
                                        candidates[i], activeTasks, cs, now),
                                energyMatch   |->
                                    IF candidates[i].energyLevel = "high"
                                    THEN "Perfect" ELSE "Good"]])]))

suggestPullForward(ts, cs, now) ==
    IF Len(ts) = 0 \/ Len(cs) = 0 THEN <<>>
    ELSE Once(SelectSeq(getUpcomingPhasePeriods(cs, PULL_FORWARD_DAYS_AHEAD, now),
                        LAMBDA p : p.phase = "ovulation"),
              LAMBDA ovulationPeriods :
         Once(ActiveTasks(ts), LAMBDA activeTasks :
             SelectSeq(AsTuple([k \in 1..Len(ovulationPeriods) |->
                           PullForwardGroup(ovulationPeriods[k], activeTasks, cs, now)]),
                       LAMBDA g : ~g.skip)))

(***************************************************************************)
(* Overload detector (overloadDetector).  A warning id `overload-<date>`   *)
(* is the pair <<"overload", date>>, `mismatch-<task id>` the pair         *)
(* <<"mismatch", id>>; fields a warning does not carry are NULL.           *)
(***************************************************************************)
OVERLOAD_TASK_COUNT == 3

RECURSIVE ConcatAll(_)
\* the pushes of successive loop rounds, in order
ConcatAll(ss) == IF ss = <<>> THEN <<>> ELSE Head(ss) \o ConcatAll(Tail(ss))

Warning(id, type, severity, phase, period, taskId, count, slots) ==
    [id |-> id, type |-> type, severity |-> severity, phase |-> phase,
     phaseStart |-> period.start, phaseEnd |-> period.end,
     task |-> taskId, taskCount |-> count, availableSlots |-> slots]

\* mutant: the overload severity no longer looks at the tasks' energy
PeriodWarnings_SeverityMedium(period, activeTasks, userPreferences) ==
    Once(TasksInPhase(activeTasks, period), LAMBDA tasksInPhase :
        (IF period.phase = "menstrual" /\ Len(tasksInPhase) > OVERLOAD_TASK_COUNT
         THEN <<Warning(<<"overload", period.start>>, "overload", "medium", "menstrual",
                        period, NULL, Len(tasksInPhase), NULL)>>
         ELSE <<>>)
        \o
        (IF period.phase \in {"menstrual", "luteal"}
         THEN Once(SelectSeq(tasksInPhase, LAMBDA t : t.energyLevel = "high"),
                   LAMBDA mismatched :
                       AsTuple([i \in 1..Len(mismatched) |->
                           Warning(<<"mismatch", mismatched[i].id>>, "energy_mismatch",
                                   "medium", period.phase, period, mismatched[i].id,
                                   NULL, NULL)]))
         ELSE <<>>)
        \o
        (IF period.phase = "ovulation"
         THEN Once(getCapacityForPhase("ovulation", userPreferences) - Len(tasksInPhase),
                   LAMBDA availableSlots :
                       IF availableSlots >= 2
                       THEN <<Warning(<<"underutilized", period.start>>, "underutilized",
                                      "low", "ovulation", period, NULL, NULL,
                                      availableSlots)>>
                       ELSE <<>>)
         ELSE <<>>))

\* the body of the loop over the phase periods: the warnings pushed for one
PeriodWarnings(period, activeTasks, userPreferences) ==
    Once(TasksInPhase(activeTasks, period), LAMBDA tasksInPhase :
        (IF period.phase = "menstrual" /\ Len(tasksInPhase) > OVERLOAD_TASK_COUNT
         THEN <<Warning(<<"overload", period.start>>, "overload",
                        IF Len(SelectSeq(tasksInPhase,
                                         LAMBDA t : t.energyLevel = "high")) > 0
                        THEN "high" ELSE "medium",
                        "menstrual", period, NULL, Len(tasksInPhase), NULL)>>
         ELSE <<>>)
        \o
        (IF period.phase \in {"menstrual", "luteal"}
         THEN Once(SelectSeq(tasksInPhase, LAMBDA t : t.energyLevel = "high"),
                   LAMBDA mismatched :
                       AsTuple([i \in 1..Len(mismatched) |->
                           Warning(<<"mismatch", mismatched[i].id>>, "energy_mismatch",
                                   "medium", period.phase, period, mismatched[i].id,
                                   NULL, NULL)]))
         ELSE <<>>)
        \o
        (IF period.phase = "ovulation"
         THEN Once(getCapacityForPhase("ovulation", userPreferences) - Len(tasksInPhase),
                   LAMBDA availableSlots :
                       IF availableSlots >= 2
                       THEN <<Warning(<<"underutilized", period.start>>, "underutilized",
                                      "low", "ovulation", period, NULL, NULL,
                                      availableSlots)>>
                       ELSE <<>>)
         ELSE <<>>))

detectOverloadSituations(ts, cs, userPreferences, now) ==
    IF Len(ts) = 0 \/ Len(cs) = 0 THEN <<>>
    ELSE Once(getUpcomingPhasePeriods(cs, OVERLOAD_DAYS_AHEAD, now), LAMBDA phasePeriods :
         Once(ActiveTasks(ts), LAMBDA activeTasks :
             ConcatAll(AsTuple([k \in 1..Len(phasePeriods) |->
                 PeriodWarnings(phasePeriods[k], activeTasks, userPreferences)]))))

(***************************************************************************)
(* Advice harness: a stored task list and cycle store are drawn in the     *)
(* initial state; the actions apply suggestPullForward and                 *)
(* detectOverloadSituations to them.                                       *)
(***************************************************************************)
MaxOccupants == 4

\* what was logged before the advice is asked for, first to last; the
\* period starting on day 98 has its menstrual window on the days the advice
\* looks at
AdviceLogs ==
    {<<>>,
     <<[startDate |-> 86, endDate |-> 89]>>,
     <<[startDate |-> 56, endDate |-> NULL], [startDate |-> 86, endDate |-> 89]>>,
     <<[startDate |-> 98, endDate |-> NULL]>>,
     <<[startDate |-> 56, endDate |-> NULL], [startDate |-> 98, endDate |-> NULL]>>}

AdviceStores == {LogAll(ps) : ps \in AdviceLogs}

\* kinds of stored task: date as an offset from today, and how many of the
\* kind a list may hold.  The first two sit in the days just after today,
\* the others weeks later.
AdviceTaskKinds ==
    <<[energy |-> "high",   off |->  1, deadline |-> NULL, done |-> FALSE, auto |-> FALSE, most |-> MaxOccupants],
      [energy |-> "none",   off |->  2, deadline |-> NULL, done |-> FALSE, auto |-> FALSE, most |-> MaxOccupants],
      [energy |-> "high",   off |-> 33, deadline |-> NULL, done |-> FALSE, auto |-> TRUE,  most |-> 1],
      [energy |-> "high",   off |-> 31, deadline |-> NULL, done |-> FALSE, auto |-> TRUE,  most |-> 1],
      [energy |-> "medium", off |->  5, deadline |-> NULL, done |-> FALSE, auto |-> TRUE,  most |-> 1],
      [energy |-> "high",   off |-> 31, deadline |-> 40,   done |-> FALSE, auto |-> TRUE,  most |-> 1],
      [energy |-> "high",   off |-> 31, deadline |-> NULL, done |-> TRUE,  auto |-> TRUE,  most |-> 1]>>

RECURSIVE KindOfPosition(_, _, _)
\* the kind of the i-th task of a list holding count[k] tasks of kind k
KindOfPosition(count, i, k) ==
    IF i <= count[k] THEN k ELSE KindOfPosition(count, i - count[k], k + 1)

AdviceTaskLists(now) ==
    {AsTuple([i \in 1..SumSeq(count) |->
         LET kind == AdviceTaskKinds[KindOfPosition(count, i, 1)]
         IN  TaskRecord(i, kind.energy,
                        IF kind.deadline = NULL THEN NULL ELSE now + kind.deadline,
                        {}, now + kind.off, kind.done, kind.auto)]) :
       count \in {c \in [1..Len(AdviceTaskKinds) -> 0..MaxOccupants] :
                     /\ \A k \in 1..Len(AdviceTaskKinds) : c[k] <= AdviceTaskKinds[k].most
                     /\ c[1] + c[2] <= MaxOccupants}}

InitAdvice ==
    /\ today \in TodaySet
    /\ cycles \in AdviceStores
    /\ tasks \in AdviceTaskLists(today)
    /\ prefs \in Preferences
    /\ arg = NULL
    /\ history = <<>>
    /\ pending = <<>>
    /\ out = NoOut

\* App: suggestPullForward(tasks, cycles) on the loaded tasks and cycles
DoSuggestPullForward ==
    /\ out = NoOut
    /\ \E cs \in {getAllCycles(cycles)} :
           out' = [op |-> "suggestPullForward",
                   groups |-> suggestPullForward(tasks, cs, today)]
    /\ UNCHANGED <<today, cycles, tasks, history, prefs, arg, pending>>

\* App: detectOverloadSituations(tasks, cycles, userPreferences)
DoDetectOverload ==
    /\ out = NoOut
    /\ \E cs \in {getAllCycles(cycles)} :
           out' = [op |-> "detectOverloadSituations",
                   warnings |-> detectOverloadSituations(tasks, cs, prefs, today)]
    /\ UNCHANGED <<today, cycles, tasks, history, prefs, arg, pending>>

NextAdvice == DoSuggestPullForward \/ DoDetectOverload

SpecAdvice == InitAdvice /\ [][NextAdvice]_vars

(***************************************************************************)
(* Claims about the pull-forward optimizer                                 *)
(***************************************************************************)
PullReturned == out # NoOut /\ out.op = "suggestPullForward"

StoredTaskSet == {tasks[i] : i \in 1..Len(tasks)}

\* active stored tasks scheduled inside a period
ActiveInPeriod(period) ==
    {t \in StoredTaskSet :
        /\ ~t.completed /\ t.scheduledDate # NULL
        /\ period.start <= t.scheduledDate /\ t.scheduledDate <= period.end}

\* stored tasks the optimizer may move ahead of a period
MovableAfter(period) ==
    {t \in StoredTaskSet :
        /\ ~t.completed /\ t.deadline = NULL /\ t.autoScheduled
        /\ t.energyLevel \in {"high", "medium"}
        /\ t.scheduledDate > period.end}

\* C11: suggestPullForward never proposes a task that has a deadline, never
\* a completed task, and every returned group holds at most as many
\* candidates as its free ovulation slots: 5 minus the active tasks already
\* scheduled inside that ovulation period.
C11_PullForwardCandidates ==
    PullReturned =>
        \A g \in 1..Len(out.groups) :
            LET group == out.groups[g]
            IN  /\ group.period.phase = "ovulation"
                /\ Len(group.candidates) <=
                       OVULATION_CAPACITY - Cardinality(ActiveInPeriod(group.period))
                /\ \A c \in 1..Len(group.candidates) :
                       /\ group.candidates[c].task \in StoredTaskSet
                       /\ group.candidates[c].task.deadline = NULL
                       /\ ~group.candidates[c].task.completed

\* a group was returned although a task with a deadline and a completed task
\* are scheduled after its period, and more tasks could be moved than the
\* period has free slots
C11_Witness ==
    /\ PullReturned
    /\ \E g \in 1..Len(out.groups) :
           LET period == out.groups[g].period
           IN  /\ Cardinality(ActiveInPeriod(period)) = 3
               /\ Len(out.groups[g].candidates) = 2
               /\ Cardinality(MovableAfter(period)) > 2
               /\ \E t \in StoredTaskSet :
                      t.deadline # NULL /\ ~t.completed /\ t.scheduledDate > period.end
               /\ \E t \in StoredTaskSet :
                      t.completed /\ t.scheduledDate > period.end

(***************************************************************************)
(* Claims about the overload detector                                      *)
(***************************************************************************)
OverloadReturned == out # NoOut /\ out.op = "detectOverloadSituations"

\* the days the detector looks at
OverloadDays == today..(today + OVERLOAD_DAYS_AHEAD - 1)

\* the phase the detector gives each of these days, first to last
OverloadDayPhases ==
    AsTuple([k \in 1..OVERLOAD_DAYS_AHEAD |->
                PhaseOrLuteal(today + k - 1, getAllCycles(cycles))])

\* s..e is a maximal run of equal-phase days among the days looked at
IsPhasePeriod(phase, s, e) ==
    /\ s \in OverloadDays /\ e \in OverloadDays /\ s <= e
    /\ \A d \in s..e : phase[d - today + 1] = phase[s - today + 1]
    /\ (s - 1) \in OverloadDays => phase[s - today] # phase[s - today + 1]
    /\ (e + 1) \in OverloadDays => phase[e - today + 2] # phase[s - today + 1]

ActiveBetween(s, e) ==
    {t \in StoredTaskSet :
        ~t.completed /\ t.scheduledDate # NULL /\ s <= t.scheduledDate /\ t.scheduledDate <= e}

WarningsOfType(type) == SelectSeq(out.warnings, LAMBDA w : w.type = type)

\* every period of the segmentation has its overload warning, or none
OverloadRule(phase) ==
    /\ \A s \in OverloadDays : \A e \in OverloadDays :
           IsPhasePeriod(phase, s, e) =>
               LET inPeriod == ActiveBetween(s, e)
                   issued   == SelectSeq(WarningsOfType("overload"),
                                         LAMBDA w : w.id = <<"overload", s>>)
               IN  IF phase[s - today + 1] = "menstrual"
                      /\ Cardinality(inPeriod) > OVERLOAD_TASK_COUNT
                   THEN /\ Len(issued) = 1
                        /\ issued[1].phaseStart = s /\ issued[1].phaseEnd = e
                        /\ issued[1].taskCount = Cardinality(inPeriod)
                        /\ issued[1].severity =
                               IF \E t \in inPeriod : t.energyLevel = "high"
                               THEN "high" ELSE "medium"
                   ELSE Len(issued) = 0
    /\ \A w \in 1..Len(WarningsOfType("overload")) :
           \E s \in OverloadDays : \E e \in OverloadDays :
               /\ IsPhasePeriod(phase, s, e)
               /\ WarningsOfType("overload")[w].id = <<"overload", s>>

\* every stored task has its energy_mismatch warning, or none
MismatchRule(phase) ==
    /\ \A t \in StoredTaskSet :
           Len(SelectSeq(WarningsOfType("energy_mismatch"), LAMBDA w : w.task = t.id))
               = IF /\ ~t.completed /\ t.scheduledDate \in OverloadDays
                    /\ t.energyLevel = "high"
                    /\ phase[t.scheduledDate - today + 1] \in {"menstrual", "luteal"}
                 THEN 1 ELSE 0
    /\ \A w \in 1..Len(WarningsOfType("energy_mismatch")) :
           /\ \E t \in StoredTaskSet : WarningsOfType("energy_mismatch")[w].task = t.id
           /\ WarningsOfType("energy_mismatch")[w].severity = "medium"

\* the stored tasks are 4 incomplete high-energy tasks, all inside the 5-day
\* menstrual window of one logged cycle and among the days looked at
FourHighInLoggedWindow ==
    /\ Len(tasks) = 4
    /\ \E c \in StoredCycles :
           /\ c.phases.menstrual.end = c.startDate + 4
           /\ \A t \in StoredTaskSet :
                  /\ ~t.completed /\ t.energyLevel = "high"
                  /\ t.scheduledDate \in OverloadDays
                  /\ c.startDate <= t.scheduledDate
                  /\ t.scheduledDate <= c.phases.menstrual.end

MaxDailyLimit == 30

\* dailyTaskLimit as the preferences may hold it: unset, or a positive count
CapacityPreferences ==
    {[dailyTaskLimit |-> l, reschedulingBehavior |-> "ask_permission"] :
        l \in {NULL} \cup 1..MaxDailyLimit}

InitCapacity ==
    /\ today \in {100}
    /\ cycles = <<>>
    /\ tasks = <<>>
    /\ history = <<>>
    /\ pending = <<>>
    /\ prefs \in CapacityPreferences
    /\ arg \in {PhaseNames[i] : i \in 1..Len(PhaseNames)}
    /\ out = NoOut

DoGetCapacity ==
    /\ out = NoOut
    /\ out' = [op |-> "getCapacityForPhase", capacity |-> getCapacityForPhase(arg, prefs)]
    /\ UNCHANGED <<today, cycles, tasks, history, prefs, arg, pending>>

NextCapacity == DoGetCapacity

SpecCapacity == InitCapacity /\ [][NextCapacity]_vars

CapacityReturned == out # NoOut /\ out.op = "getCapacityForPhase"

\* the multipliers as the claim gives them, in hundredths
ClaimedMultiplier(phase) ==
    CASE phase = "menstrual"  -> 50
      [] phase = "follicular" -> 75
      [] phase = "ovulation"  -> 125
      [] phase = "luteal"     -> 75

\* r is x / 100 rounded to the nearest integer, halves rounded up
IsRounded(r, x) == 2 * 100 * r - 100 <= 2 * x /\ 2 * x < 2 * 100 * r + 100

\* C13: getCapacityForPhase(phase, prefs) is max(1, round(dailyTaskLimit x
\* multiplier[phase])) with multipliers 0.50, 0.75, 1.25, 0.75 for
\* menstrual, follicular, ovulation, luteal; a limit of 4 gives 2, 3, 5, 3;
\* and for every limit >= 1 and every phase the result is at least 1.
C13_CapacityFormula ==
    (CapacityReturned /\ prefs.dailyTaskLimit # NULL /\ prefs.dailyTaskLimit >= 1) =>
        /\ \E r \in 0..(2 * MaxDailyLimit + 2) :
               /\ IsRounded(r, prefs.dailyTaskLimit * ClaimedMultiplier(arg))
               /\ out.capacity = IF r >= 1 THEN r ELSE 1
        /\ out.capacity >= 1
        /\ prefs.dailyTaskLimit = 4 =>
               out.capacity = CASE arg = "menstrual"  -> 2
                                [] arg = "follicular" -> 3
                                [] arg = "ovulation"  -> 5
                                [] arg = "luteal"     -> 3

\* the capacity of a phase was computed from a limit whose product with the
\* multiplier falls on a half, and rounded up
C13_Witness ==
    /\ CapacityReturned
    /\ prefs.dailyTaskLimit = 2 /\ arg = "follicular" /\ out.capacity = 2

(***************************************************************************)
(* Claims about the cycle store                                            *)
(***************************************************************************)
\* a cycle's period: its start through its logged end date, or through the
\* end of its menstrual window when no end date was logged
PeriodRange(c) ==
    c.startDate..(IF c.endDate # NULL THEN c.endDate ELSE c.phases.menstrual.end)

NoOverlappingPeriods(db) ==
    \A i \in 1..Len(db) : \A j \in 1..Len(db) :
        i # j => PeriodRange(db[i]) \cap PeriodRange(db[j]) = {}

\* C14: logCycle deletes every stored cycle whose period range overlaps the
\* newly logged one before it stores the new cycle, so after any sequence of
\* logCycle calls no two stored cycles have overlapping period ranges.
C14_NoOverlappingCycles ==
    [][(out' # NoOut /\ out'.op = "saveCycle") =>
          /\ \E n \in 1..Len(cycles') :
                 /\ cycles'[n].startDate = arg'.startDate
                 /\ cycles'[n].endDate = arg'.endDate
                 /\ \A i \in 1..Len(cycles') :
                        i # n =>
                            /\ PeriodRange(cycles'[i]) \cap PeriodRange(cycles'[n]) = {}
                            /\ \E k \in 1..Len(cycles) :
                                   /\ cycles[k].startDate = cycles'[i].startDate
                                   /\ cycles[k].endDate = cycles'[i].endDate
                 /\ \A k \in 1..Len(cycles) :
                        PeriodRange(cycles[k]) \cap PeriodRange(cycles'[n]) # {}
                            => \A i \in 1..Len(cycles') :
                                   i # n => cycles'[i].startDate # cycles[k].startDate
          /\ NoOverlappingPeriods(cycles')]_vars

\* a period was logged over a store holding a cycle it overlaps: that cycle
\* was deleted, another one was kept
C14_Witness ==
    /\ out # NoOut /\ out.op = "saveCycle"
    /\ out.removed >= 1
    /\ Len(cycles) = 2

\* C15: after every completed period-logging operation the stored cycle
\* with the latest start date has cycleLength null, and every other stored
\* cycle has cycleLength equal to the days from its start date to the start
\* date of the next cycle in chronological order.
C15_CycleLengthsFromGaps ==
    \A c \in StoredCycles :
        LET later == {n \in StoredCycles : n.startDate > c.startDate}
        IN  IF later = {}
            THEN c.cycleLength = NULL
            ELSE \E next \in later :
                     /\ \A n \in later : next.startDate <= n.startDate
                     /\ c.cycleLength = next.startDate - c.startDate

\* a second period was logged: the older cycle got the gap as its length
C15_Witness ==
    /\ out # NoOut /\ out.op = "saveCycle"
    /\ \E c \in StoredCycles : c.startDate = 56 /\ c.cycleLength = 30
    /\ \E c \in StoredCycles : c.startDate = 86 /\ c.cycleLength = NULL

(***************************************************************************)
(* Input frame harness.  arg.cycles is the array the caller passes, with   *)
(* the cycle records it holds; [...cycles] copies the array but not the    *)
(* records, so a write through sorted[i] is a write to the caller's record.*)
(***************************************************************************)
\* the caller's array after updateCycleLengths(cycles) has returned: same
\* order, the records as the loop over sorted left them
CallerCyclesAfterUpdateCycleLengths(cs) ==
    IF Len(cs) < 2 THEN cs
    ELSE Once(updateCycleLengths(cs), LAMBDA sorted :
             LET place(i) == 1 + Cardinality({j \in 1..Len(cs) :
                                 \/ cs[j].startDate < cs[i].startDate
                                 \/ cs[j].startDate = cs[i].startDate /\ j < i})
             IN  AsTuple([i \in 1..Len(cs) |->
                     [cs[i] EXCEPT !.cycleLength = sorted[place(i)].cycleLength]]))

\* stores as logCycle leaves them, before the lengths are recomputed
FrameStores ==
    {logCycle(LogAll(ps), p.startDate, p.endDate) :
        ps \in SeqsUpTo(LoggedPeriods, MaxCycles - 1), p \in LoggedPeriods}

InitFrame ==
    /\ today \in LogDays
    /\ cycles \in FrameStores
    /\ arg = [cycles |-> getAllCycles(cycles)]
    /\ tasks = <<>>
    /\ history = <<>>
    /\ pending = <<>>
    /\ prefs \in {[dailyTaskLimit |-> DEFAULT_DAILY_LIMIT, reschedulingBehavior |-> "ask_permission"]}
    /\ out = NoOut

\* const updated = updateCycleLengths(allCycles)
DoUpdateCycleLengths ==
    /\ out = NoOut
    /\ out' = [op |-> "updateCycleLengths", result |-> updateCycleLengths(arg.cycles)]
    /\ arg' = [arg EXCEPT !.cycles = CallerCyclesAfterUpdateCycleLengths(arg.cycles)]
    /\ UNCHANGED <<today, cycles, tasks, history, prefs, pending>>

\* getPhaseForDateAdvanced(date, cycles)
DoGetPhaseAdvanced ==
    /\ out = NoOut
    /\ \E d \in QueryDates :
           out' = [op |-> "getPhaseForDateAdvanced", date |-> d,
                   phase |-> getPhaseForDateAdvanced(d, arg.cycles)]
    /\ UNCHANGED <<today, cycles, tasks, history, prefs, arg, pending>>

NextFrame == DoUpdateCycleLengths \/ DoGetPhaseAdvanced

SpecFrame == InitFrame /\ [][NextFrame]_vars

\* C16: no core computation mutates its inputs: the cycle collection passed
\* to getPhaseForDateAdvanced or updateCycleLengths, and every record in it,
\* is the same after the call as before.
C16_InputsUnchanged == [][arg'.cycles = arg.cycles]_vars

(***************************************************************************)
(* Scheduler variant with alternatives (taskScheduler)                     *)
(***************************************************************************)
MAX_ALTERNATIVES == 3
FALLBACK_CAPACITY == 3

\* candidates.map(d => ({ ...scored, phase, tasksOnDate, capacity, dateStr }))
ScoreAllCandidates(candidates, task, existingTasks, cs, userPreferences) ==
    AsTuple([i \in 1..Len(candidates) |->
        Once(scoreDate(candidates[i], task, existingTasks, cs, userPreferences),
             LAMBDA scored :
                 [date        |-> scored.date,
                  totalScore  |-> scored.totalScore,
                  breakdown   |-> scored.breakdown,
                  phase       |-> scored.phase,
                  tasksOnDate |-> TasksOnDate(candidates[i], existingTasks),
                  capacity    |-> getCapacityForPhase(scored.phase, userPreferences)])])

\* withinCapacity.filter(s => s.dateStr !== best.dateStr).slice(0, 3).map(...)
Alternatives(withinCapacity, best) ==
    Once(SelectSeq(withinCapacity, LAMBDA a : a.date # best.date), LAMBDA others :
        AsTuple([i \in 1..(IF Len(others) < MAX_ALTERNATIVES THEN Len(others)
                           ELSE MAX_ALTERNATIVES) |->
            [date        |-> others[i].date,
             phase       |-> others[i].phase,
             tasksOnDate |-> others[i].tasksOnDate,
             capacity    |-> others[i].capacity,
             score       |-> RoundDiv(others[i].totalScore, 10)]]))

\* mutant: the last resort is today instead of tomorrow
AlternativesResult_LastResortToday(pool, withinCapacity, now) ==
    IF Len(pool) = 0
    THEN [scheduledDate |-> now, isAtCapacity |-> FALSE, tasksOnDate |-> 0,
          capacity |-> FALLBACK_CAPACITY, phase |-> "luteal", alternatives |-> <<>>]
    ELSE [scheduledDate |-> pool[1].date,
          isAtCapacity  |-> pool[1].tasksOnDate >= pool[1].capacity,
          tasksOnDate   |-> pool[1].tasksOnDate,
          capacity      |-> pool[1].capacity,
          phase         |-> pool[1].phase,
          alternatives  |-> Alternatives(withinCapacity, pool[1])]

\* mutant: a full best date is not reported as at capacity
AlternativesResult_NeverAtCapacity(pool, withinCapacity, now) ==
    IF Len(pool) = 0
    THEN [scheduledDate |-> now + 1, isAtCapacity |-> FALSE, tasksOnDate |-> 0,
          capacity |-> FALLBACK_CAPACITY, phase |-> "luteal", alternatives |-> <<>>]
    ELSE [scheduledDate |-> pool[1].date,
          isAtCapacity  |-> FALSE,
          tasksOnDate   |-> pool[1].tasksOnDate,
          capacity      |-> pool[1].capacity,
          phase         |-> pool[1].phase,
          alternatives  |-> Alternatives(withinCapacity, pool[1])]

\* the result built from the sorted pool; withinCapacity is the array after
\* pool.sort, which sorts it in place when it is the pool
AlternativesResult(pool, withinCapacity, now) ==
    IF Len(pool) = 0
    THEN [scheduledDate |-> now + 1, isAtCapacity |-> FALSE, tasksOnDate |-> 0,
          capacity |-> FALLBACK_CAPACITY, phase |-> "luteal", alternatives |-> <<>>]
    ELSE [scheduledDate |-> pool[1].date,
          isAtCapacity  |-> pool[1].tasksOnDate >= pool[1].capacity,
          tasksOnDate   |-> pool[1].tasksOnDate,
          capacity      |-> pool[1].capacity,
          phase         |-> pool[1].phase,
          alternatives  |-> Alternatives(withinCapacity, pool[1])]

\* mutant: the best overall date is taken even when dates within capacity exist
scheduleTaskWithAlternatives_IgnoresCapacity(task, existingTasks, cs, userPreferences, now) ==
    LET maxDate == IF task.deadline # NULL THEN task.deadline ELSE now + WINDOW_DAYS
    IN  Once(ScoreAllCandidates(NotPastBeforeDeadline(task, now, maxDate, now), task,
                                existingTasks, cs, userPreferences),
             LAMBDA allScored :
        Once(SelectSeq(allScored, LAMBDA a : a.tasksOnDate < a.capacity),
             LAMBDA withinCapacity :
                 AlternativesResult(SortScoredDesc(allScored), withinCapacity, now)))

scheduleTaskWithAlternatives(task, existingTasks, cs, userPreferences, now) ==
    LET maxDate == IF task.deadline # NULL THEN task.deadline ELSE now + WINDOW_DAYS
    IN  Once(ScoreAllCandidates(NotPastBeforeDeadline(task, now, maxDate, now), task,
                                existingTasks, cs, userPreferences),
             LAMBDA allScored :
        Once(SelectSeq(allScored, LAMBDA a : a.tasksOnDate < a.capacity),
             LAMBDA withinCapacity :
                 IF Len(withinCapacity) > 0
                 THEN Once(SortScoredDesc(withinCapacity), LAMBDA pool :
                          AlternativesResult(pool, pool, now))
                 ELSE AlternativesResult(SortScoredDesc(allScored), withinCapacity, now)))

(***************************************************************************)
(* Harness of the variant: the inputs of the scheduler harness, the action *)
(* applies scheduleTaskWithAlternatives to them.                           *)
(***************************************************************************)
DoScheduleTaskWithAlternatives ==
    /\ out = NoOut
    /\ \E cs \in {getAllCycles(cycles)} :
           out' = [op |-> "scheduleTaskWithAlternatives",
                   info |-> scheduleTaskWithAlternatives(arg, tasks, cs, prefs, today)]
    /\ UNCHANGED <<today, cycles, tasks, history, prefs, arg, pending>>

NextAlternatives == DoScheduleTaskWithAlternatives

SpecAlternatives == InitSched /\ [][NextAlternatives]_vars

AlternativesReturned == out # NoOut /\ out.op = "scheduleTaskWithAlternatives"

\* the chosen date and the alternatives, as the claim describes them when a
\* candidate date exists
ChoiceAndAlternatives ==
    /\ IF StrictDates # {}
       THEN BestIn(StrictDates, out.info.scheduledDate) /\ ~out.info.isAtCapacity
       ELSE BestIn(RelaxedDates, out.info.scheduledDate) /\ out.info.isAtCapacity
    /\ Len(out.info.alternatives) <= 3
    /\ \A a \in 1..Len(out.info.alternatives) :
           /\ out.info.alternatives[a].date \in StrictDates
           /\ out.info.alternatives[a].date # out.info.scheduledDate
           /\ \A b \in (a + 1)..Len(out.info.alternatives) :
                  /\ ScoreOf(out.info.alternatives[a].date)
                         >= ScoreOf(out.info.alternatives[b].date)
                  /\ out.info.alternatives[a].date # out.info.alternatives[b].date

\* C17 as stated: the chosen date is a best-scoring within-capacity date when
\* a non-past date before the deadline is within capacity, and a
\* best-scoring non-past date before the deadline otherwise, with
\* isAtCapacity true exactly in the second case; the alternatives are at
\* most 3 dates, each within capacity, none the chosen date, in descending
\* order of total score.
C17_Original == AlternativesReturned => ChoiceAndAlternatives

\* C17 amended: the same whenever a non-past date before the deadline
\* exists; when none exists (deadline today or earlier) the result is
\* tomorrow with isAtCapacity false and no alternatives.
C17_Amended ==
    AlternativesReturned =>
        IF RelaxedDates # {}
        THEN ChoiceAndAlternatives
        ELSE /\ arg.deadline # NULL /\ arg.deadline <= today
             /\ out.info.scheduledDate = today + 1
             /\ ~out.info.isAtCapacity
             /\ out.info.alternatives = <<>>

\* every date before the deadline is full: the best overall date was chosen
\* and reported as at capacity
C17_Witness ==
    /\ AlternativesReturned
    /\ RelaxedDates # {} /\ StrictDates = {}
    /\ out.info.isAtCapacity
    /\ out.info.scheduledDate \in RelaxedDates

(***************************************************************************)
(* Task form (TaskSidebar).  tasks is db.tasks, arg is the `tasks` prop:   *)
(* the list App last loaded from the store, which the form schedules       *)
(* against.  pending is the overload warning: <<>> when it is not shown,   *)
(* else the pending task with its schedule info.                           *)
(***************************************************************************)
\* createTask: the stored record takes name, deadline, preferredDays,
\* energyLevel, scheduledDate, completed, completedAt and createdAt from the
\* task; no other field of the task is stored, so autoScheduled is absent on
\* the record (read as false by every test of the flag)
createTask(db, hist, task) ==
    LET taskId   == Len(db) + 1
        taskData == TaskRecord(taskId, task.energyLevel, task.deadline, task.preferredDays,
                               task.scheduledDate, FALSE, FALSE)
    IN  [tasks   |-> Append(db, taskData),
         history |-> logTaskHistory(hist, taskId, "created", [taskData |-> taskData]),
         taskId  |-> taskId]

\* saveTask: createTask(task), then updateTask(taskId, { scheduledDate })
saveTask(db, hist, task, scheduledDate) ==
    Once(createTask(db, hist, task), LAMBDA created :
        updateTask(created.tasks, created.history, created.taskId,
                   [scheduledDate |-> scheduledDate]))

\* deadlines the form may carry, as offsets from today
FormDeadlineOffsets == {NULL, 0, 1}

\* the task object handleSubmit builds from the form fields
FormTasks(now) ==
    {TaskRecord(0, e, IF off = NULL THEN NULL ELSE now + off, {"Sat", "Sun"}, NULL,
                FALSE, TRUE) :
        e \in EnergyLevels, off \in FormDeadlineOffsets}

InitForm ==
    /\ today \in TodaySet
    /\ cycles \in AdviceStores
    /\ prefs \in Preferences
    /\ tasks = <<>>
    /\ arg = <<>>
    /\ history = <<>>
    /\ pending = <<>>
    /\ out = NoOut

\* handleSubmit: schedule against the tasks prop; warn when the date is at
\* capacity, else saveTask
HandleSubmit ==
    /\ pending = <<>>
    /\ Len(tasks) < MaxTasks
    /\ \E task \in FormTasks(today) :
       \E info \in {scheduleTaskWithAlternatives(task, arg, getAllCycles(cycles), prefs,
                                                 today)} :
           IF info.isAtCapacity
           THEN /\ pending' = <<[task |-> task, info |-> info]>>
                /\ out' = [op |-> "handleSubmit", saved |-> FALSE, task |-> task,
                           date |-> info.scheduledDate]
                /\ UNCHANGED <<tasks, history>>
           ELSE \E saved \in {saveTask(tasks, history, task, info.scheduledDate)} :
                    /\ tasks' = saved.tasks
                    /\ history' = saved.history
                    /\ out' = [op |-> "handleSubmit", saved |-> TRUE, task |-> task,
                               date |-> info.scheduledDate]
                    /\ UNCHANGED pending
    /\ UNCHANGED <<today, cycles, prefs, arg>>

\* handleConfirmSave(dateOverride): add anyway, or use one of the alternatives
HandleConfirmSave ==
    /\ pending # <<>>
    /\ \E dateOverride \in {NULL} \cup {pending[1].info.alternatives[a].date :
                                           a \in 1..Len(pending[1].info.alternatives)} :
       \E date \in {IF dateOverride # NULL THEN dateOverride
                    ELSE pending[1].info.scheduledDate} :
       \E saved \in {saveTask(tasks, history, pending[1].task, date)} :
           /\ tasks' = saved.tasks
           /\ history' = saved.history
           /\ out' = [op |-> "handleConfirmSave", saved |-> TRUE, task |-> pending[1].task,
                      date |-> date]
    /\ pending' = <<>>
    /\ UNCHANGED <<today, cycles, prefs, arg>>

HandleCancelWarning ==
    /\ pending # <<>>
    /\ pending' = <<>>
    /\ out' = [op |-> "handleCancelWarning"]
    /\ UNCHANGED <<today, cycles, tasks, history, prefs, arg>>

\* App.loadTasks, started by onTaskCreated and finishing later:
\* setTasks(await getAllTasks())
LoadTasks ==
    /\ arg # tasks
    /\ arg' = tasks
    /\ out' = [op |-> "loadTasks"]
    /\ UNCHANGED <<today, cycles, tasks, history, prefs, pending>>

NextForm == HandleSubmit \/ HandleConfirmSave \/ HandleCancelWarning \/ LoadTasks

SpecForm == InitForm /\ [][NextForm]_vars

(***************************************************************************)
(* Claims about the task form                                              *)
(***************************************************************************)
\* C18: a task created through the task form with an engine-chosen date is
\* stored with autoScheduled = true, and is therefore eligible for
\* checkAndReschedule (and suggestPullForward) on later runs when it is
\* incomplete and scheduled after today.
C18_FormTaskStoredAutoScheduled ==
    \A t \in StoredTaskSet :
        /\ t.autoScheduled
        /\ (~t.completed /\ t.scheduledDate # NULL /\ t.scheduledDate > today)
               => isEligible(t, today)

\* active stored tasks on a date, and the capacity of the date's phase
StoredOnDate(db, d) == TasksOnDate(d, db)

CapacityOfDate(d) == getCapacityForPhase(PhaseOrLuteal(d, getAllCycles(cycles)), prefs)

\* dates the form's scheduler may choose for a task: not past, before the deadline
FormWindow(task) ==
    {d \in today..(IF task.deadline # NULL THEN task.deadline ELSE today + WINDOW_DAYS) :
        task.deadline = NULL \/ d < task.deadline}

SavedBySubmit == out # NoOut /\ out.op = "handleSubmit" /\ out.saved

\* C19: the read-compute-write sequence of scheduling is not atomic.  A
\* request that computes its date from the task list as stored (its read is
\* not older than the last write) and is saved without a warning never
\* leaves its date with more active tasks than the date's phase capacity
\* when its window has a date; only a request computed from an older
\* snapshot can (the witness): two requests that both read before either
\* writes are placed on the same date, which then holds more active tasks
\* than its capacity although another date of the window was within capacity.
C19_OverCapacityOnlyFromStaleSnapshot ==
    [][(/\ out' # NoOut /\ out'.op = "handleSubmit" /\ out'.saved
        /\ tasks' # tasks
        /\ FormWindow(out'.task) # {}
        /\ StoredOnDate(tasks', out'.date) > CapacityOfDate(out'.date))
       => arg # tasks]_vars

\* two requests computed from the same snapshot were saved on the same date
\* without a warning; the date now holds more active tasks than its capacity,
\* and another date of the second request's window has free capacity
C19_Witness ==
    /\ SavedBySubmit
    /\ Len(tasks) = 2 /\ arg = <<>>
    /\ tasks[1].scheduledDate = out.date /\ tasks[2].scheduledDate = out.date
    /\ StoredOnDate(tasks, out.date) > CapacityOfDate(out.date)
    /\ \E d \in FormWindow(out.task) :
           d # out.date /\ StoredOnDate(tasks, d) < CapacityOfDate(d)

(***************************************************************************)
(* Harness without cycle data: the cycle list is empty; the actions apply  *)
(* scoreDate, scheduleTask and detectOverloadSituations.                   *)
(***************************************************************************)
\* dates scoreDate is asked about, as offsets from today
ScoreOffsets == {0, 1, 2}

\* stored task lists of at most MaxTasks tasks
ShortTaskLists(now) == {ts \in AdviceTaskLists(now) : Len(ts) <= MaxTasks}

InitNoCycles ==
    /\ today \in TodaySet
    /\ cycles = <<>>
    /\ tasks \in ShortTaskLists(today)
    /\ prefs \in Preferences
    /\ arg \in NewTasks(today)
    /\ history = <<>>
    /\ pending = <<>>
    /\ out = NoOut

\* scoreDate(date, task, existingTasks, cycles, userPreferences)
DoScoreDate ==
    /\ out = NoOut
    /\ \E off \in ScoreOffsets :
           out' = [op |-> "scoreDate",
                   score |-> scoreDate(today + off, arg, tasks, getAllCycles(cycles), prefs)]
    /\ UNCHANGED <<today, cycles, tasks, history, prefs, arg, pending>>

NextNoCycles == DoScoreDate \/ DoScheduleTask \/ DoDetectOverload

SpecNoCycles == InitNoCycles /\ [][NextNoCycles]_vars

LutealCapacity == getCapacityForPhase("luteal", prefs)

\* the energy match of a task against the luteal phase
LutealEnergyMatch(task) ==
    CASE task.energyLevel = "none"             -> 50
      [] task.energyLevel \in {"medium", "low"} -> 100
      [] task.energyLevel = "high"             -> 20

\* scoreDate and scheduleTask treat every date as luteal
LutealScoringAndScheduling ==
    /\ (out # NoOut /\ out.op = "scoreDate") =>
           /\ out.score.phase = "luteal"
           /\ out.score.breakdown.energyMatch = LutealEnergyMatch(arg)
           /\ out.score.breakdown.workloadBalance = 0
                  <=> TasksOnDate(out.score.date, tasks) >= LutealCapacity
    /\ (out # NoOut /\ out.op = "scheduleTask") =>
           /\ out.date >= today
           /\ LET open == {d \in RelaxedDates : TasksOnDate(d, tasks) < LutealCapacity}
              IN  open # {} => out.date \in open /\ BestIn(open, out.date)

\* high-energy active stored tasks dated in the 30 days the detector looks at
HighEnergyInWindow ==
    {t \in StoredTaskSet :
        ~t.completed /\ t.energyLevel = "high" /\ t.scheduledDate \in OverloadDays}

\* C20 as stated: with an empty cycle list every date is luteal for scoreDate
\* and scheduleTask, and detectOverloadSituations gives every high-energy
\* active task scheduled in the next 30 days an energy_mismatch warning.
C20_Original ==
    Len(cycles) = 0 =>
        /\ LutealScoringAndScheduling
        /\ OverloadReturned =>
               \A t \in HighEnergyInWindow :
                   \E w \in 1..Len(out.warnings) :
                       /\ out.warnings[w].type = "energy_mismatch"
                       /\ out.warnings[w].task = t.id

\* C20 amended: with an empty cycle list every date is luteal for scoreDate
\* and scheduleTask, and detectOverloadSituations returns no warning at all.
C20_Amended ==
    Len(cycles) = 0 =>
        /\ LutealScoringAndScheduling
        /\ OverloadReturned => out.warnings = <<>>

\* the detector ran without cycle data on a list holding a high-energy
\* active task dated in the next 30 days
C20_Witness ==
    /\ Len(cycles) = 0
    /\ OverloadReturned
    /\ HighEnergyInWindow # {}

(***************************************************************************)
(* Further claims about scheduleTask, checked under SpecSched              *)
(***************************************************************************)
PhaseOfDate(d) == PhaseOrLuteal(d, getAllCycles(cycles))

\* C22: when a candidate survives the hard filters, scheduleTask returns the
\* chronologically earliest of the surviving candidates that attain the
\* maximum total score; so a high-energy task gets a date of the ovulation
\* window, not a luteal date, whenever an ovulation date scores higher than
\* every luteal date.
C22_EarliestTopScore ==
    (Scheduled /\ StrictDates # {}) =>
        /\ BestIn(StrictDates, out.date)
        /\ \A d \in StrictDates : d < out.date => ScoreOf(d) < ScoreOf(out.date)
        /\ (/\ arg.energyLevel = "high"
            /\ \E o \in StrictDates :
                   /\ PhaseOfDate(o) = "ovulation"
                   /\ \A l \in StrictDates :
                          PhaseOfDate(l) = "luteal" => ScoreOf(l) < ScoreOf(o))
           => PhaseOfDate(out.date) # "luteal"

\* a high-energy task went to an ovulation date although earlier candidates
\* and luteal candidates had capacity, and a later date ties with it
C22_Witness ==
    /\ Scheduled
    /\ arg.energyLevel = "high"
    /\ PhaseOfDate(out.date) = "ovulation"
    /\ \E d \in StrictDates : d < out.date
    /\ \E d \in StrictDates : PhaseOfDate(d) = "luteal"
    /\ \E d \in StrictDates : d > out.date /\ ScoreOf(d) = ScoreOf(out.date)

\* stored tasks on a date that are not completed
IncompleteOn(d) == {i \in 1..Len(tasks) : tasks[i].scheduledDate = d /\ ~tasks[i].completed}

\* the date holds fewer incomplete tasks than the capacity of its phase
BelowCapacity(d) ==
    Cardinality(IncompleteOn(d)) < getCapacityForPhase(PhaseOfDate(d), prefs)

\* not past, strictly before the deadline, and below capacity
RoomDates == {d \in RelaxedDates : BelowCapacity(d)}

\* C23: whenever a date of the window is not past, strictly before the
\* deadline and holds fewer incomplete tasks than its phase capacity, the
\* date scheduleTask returns holds fewer incomplete tasks than its phase
\* capacity; completed tasks never count toward a date's load, so every such
\* date is in the running and none of them outscores the returned one.
C23_ReturnedDateHasCapacity ==
    (Scheduled /\ RoomDates # {}) =>
        /\ BelowCapacity(out.date)
        /\ out.date \in RoomDates
        /\ \A d \in RoomDates : ScoreOf(d) <= ScoreOf(out.date)

\* the returned date holds a completed task and, counting it, as many tasks
\* as its capacity; another date of the window is full
C23_Witness ==
    /\ Scheduled
    /\ \E i \in 1..Len(tasks) : tasks[i].scheduledDate = out.date /\ tasks[i].completed
    /\ Cardinality({i \in 1..Len(tasks) : tasks[i].scheduledDate = out.date})
           >= getCapacityForPhase(PhaseOfDate(out.date), prefs)
    /\ BelowCapacity(out.date)
    /\ \E d \in RelaxedDates : ~BelowCapacity(d)

(***************************************************************************)
(* Harness of both schedulers: the inputs of the scheduler harness, either *)
(* scheduleTask or scheduleTaskWithAlternatives is applied to them.        *)
(***************************************************************************)
NextBoth == DoScheduleTask \/ DoScheduleTaskWithAlternatives

SpecBoth == InitSched /\ [][NextBoth]_vars

\* C29: for the same task, existing tasks, cycles and preferences the
\* scheduledDate of scheduleTaskWithAlternatives is the date scheduleTask
\* returns, in all three tiers: within-capacity pick, capacity-relaxed
\* fallback, and tomorrow as the last resort.
C29_SameDateAsScheduleTask ==
    /\ (out # NoOut /\ out.op = "scheduleTask") =>
           out.date = scheduleTaskWithAlternatives(arg, tasks, getAllCycles(cycles), prefs,
                                                   today).scheduledDate
    /\ AlternativesReturned =>
           out.info.scheduledDate = scheduleTask(arg, tasks, getAllCycles(cycles), prefs,
                                                 today)

\* the variant ran in the capacity-relaxed tier: dates before the deadline
\* exist and all of them are full
C29_Witness ==
    /\ AlternativesReturned
    /\ StrictDates = {} /\ Cardinality(RelaxedDates) = 2
    /\ out.info.scheduledDate \in RelaxedDates

\* C25: every candidate of every group returned by suggestPullForward is an
\* active auto-scheduled stored task with medium or high energy whose
\* current date is strictly after the group's ovulation period; its
\* suggestedDate lies inside the period, is not before today and is strictly
\* earlier than its currentDate.
C25_PullForwardDates ==
    PullReturned =>
        \A g \in 1..Len(out.groups) :
            LET group == out.groups[g]
            IN  /\ group.period.phase = "ovulation"
                /\ \A c \in 1..Len(group.candidates) :
                       LET cand == group.candidates[c]
                       IN  /\ cand.task \in StoredTaskSet
                           /\ ~cand.task.completed /\ cand.task.scheduledDate # NULL
                           /\ cand.task.autoScheduled
                           /\ cand.task.energyLevel \in {"high", "medium"}
                           /\ cand.currentDate = cand.task.scheduledDate
                           /\ cand.currentDate > group.period.end
                           /\ group.period.start <= cand.suggestedDate
                           /\ cand.suggestedDate <= group.period.end
                           /\ cand.suggestedDate >= today
                           /\ cand.suggestedDate < cand.currentDate

\* two groups were returned; the first period is cut at today and its
\* candidate lands on today, and an active auto-scheduled medium-energy task
\* lies between the two periods
C25_Witness ==
    /\ PullReturned
    /\ Len(out.groups) = 2
    /\ out.groups[1].period.start = today
    /\ PhaseOfDate(today - 1) = "ovulation"
    /\ \E c \in 1..Len(out.groups[1].candidates) :
           out.groups[1].candidates[c].suggestedDate = today
    /\ \E t \in StoredTaskSet :
           /\ ~t.completed /\ t.autoScheduled /\ t.energyLevel = "medium"
           /\ t.scheduledDate > out.groups[1].period.end
           /\ t.scheduledDate < out.groups[2].period.start

\* the groups of the returned result in which a task id is a candidate
GroupsProposing(id) ==
    {g \in 1..Len(out.groups) :
        \E c \in 1..Len(out.groups[g].candidates) : out.groups[g].candidates[c].task.id = id}

\* C30: within the result of one suggestPullForward call each task is a
\* candidate in at most one group, so no task is proposed for more than one
\* ovulation window of the 45-day lookahead.
C30_OneGroupPerTask ==
    PullReturned =>
        \A i \in 1..Len(tasks) : Cardinality(GroupsProposing(tasks[i].id)) <= 1

(***************************************************************************)
(* Further claims about the phase calendar, checked under SpecCycle        *)
(***************************************************************************)
\* C24: for a non-empty cycle history getPhaseForDateAdvanced resolves every
\* date to one of the four phases; no date, the dates between the earliest
\* and the latest logged start included, is left with no phase.
C24_EveryDateHasPhase ==
    (out.op = "getPhaseForDateAdvanced" /\ cycles # <<>>) =>
        out.phase \in {"menstrual", "follicular", "ovulation", "luteal"}

(***************************************************************************)
(* Calendar session (App.jsx, RescheduleReviewPanel.jsx): periods are      *)
(* logged, tasks are dragged to other days, suggestions are applied.       *)
(* pending is the rescheduleSuggestions state shown by the review panel;   *)
(* the panel is modal, so while it shows suggestions no task is dragged    *)
(* and no period is logged.                                                *)
(***************************************************************************)
\* applyRescheduling: the loop over the suggestions, first to last
RECURSIVE applyRescheduling(_, _, _)
applyRescheduling(db, hist, suggestions) ==
    IF suggestions = <<>> THEN [tasks |-> db, history |-> hist, rescheduled |-> <<>>]
    ELSE Once(applyReschedulingOne(db, hist, Head(suggestions)), LAMBDA one :
         Once(applyRescheduling(one.tasks, one.history, Tail(suggestions)), LAMBDA rest :
             [tasks |-> rest.tasks, history |-> rest.history,
              rescheduled |-> <<one.task>> \o rest.rescheduled]))

\* the pullForwardSuggestions state: the effect recomputes it whenever the
\* tasks or the cycles change and both are non-empty
PullForwardSuggestions(db, cs, now) ==
    IF Len(db) > 0 /\ Len(cs) > 0 THEN suggestPullForward(db, cs, now) ELSE <<>>

MaxSessionHistory == 2
MoveOffsets == {2}

SessionTaskKinds ==
    <<[energy |-> "high", off |-> 1,  auto |-> TRUE],
      [energy |-> "high", off |-> 31, auto |-> TRUE],
      [energy |-> "high", off |-> 2,  auto |-> FALSE]>>

SessionTaskPicks == {<<1>>, <<2>>, <<1, 1>>, <<1, 2>>, <<1, 3>>, <<2, 3>>}

SessionTaskLists(now) ==
    {AsTuple([i \in 1..Len(pick) |->
         TaskRecord(i, SessionTaskKinds[pick[i]].energy, NULL, {},
                    now + SessionTaskKinds[pick[i]].off, FALSE,
                    SessionTaskKinds[pick[i]].auto)]) :
       pick \in SessionTaskPicks}

SessionLogs ==
    {<<[startDate |-> 56, endDate |-> NULL]>>,
     <<[startDate |-> 86, endDate |-> 89]>>}

InitSession ==
    /\ today \in TodaySet
    /\ cycles \in {LogAll(ps) : ps \in SessionLogs}
    /\ tasks \in SessionTaskLists(today)
    /\ prefs \in {q \in ReschedulePreferences : q.dailyTaskLimit = DEFAULT_DAILY_LIMIT}
    /\ arg = NoOut
    /\ history = <<>>
    /\ pending = <<>>
    /\ out = NoOut

\* handleTaskMoved: the task is written with the new date and
\* autoScheduled false, the move is logged, the tasks are reloaded
HandleTaskMoved ==
    /\ pending = <<>>
    /\ Len(history) <= MaxSessionHistory
    /\ \E i \in 1..Len(tasks), o \in MoveOffsets :
           \E u \in {updateTask(tasks, history, tasks[i].id,
                                [scheduledDate |-> today + o, autoScheduled |-> FALSE])} :
               /\ tasks' = u.tasks
               /\ history' = logTaskHistory(u.history, tasks[i].id, "rescheduled",
                                 [from |-> tasks[i].scheduledDate, to |-> today + o,
                                  trigger |-> "manual_drag"])
               /\ arg' = [task |-> tasks[i], newDateStr |-> today + o]
               /\ out' = [op |-> "handleTaskMoved"]
    /\ UNCHANGED <<today, cycles, prefs, pending>>

\* a period is saved and handleCycleLogged runs: with fewer than two cycles
\* it returns; otherwise checkAndReschedule is called, which applies its
\* suggestions in automatic mode and hands them to the panel otherwise
HandleCycleLogged ==
    /\ pending = <<>>
    /\ Len(history) <= MaxSessionHistory
    /\ \E p \in PeriodInputs :
           /\ Len(removeOverlappingCycles(cycles, p.startDate, p.endDate)) < MaxCycles
           /\ p.startDate <= today
           /\ \E db \in {saveCycle(cycles, p.startDate, p.endDate)} :
              \E suggestions \in {IF Len(db) < 2 THEN <<>>
                                  ELSE checkAndRescheduleSuggestions(tasks, getAllCycles(db),
                                                                     prefs, today)} :
                  /\ cycles' = db
                  /\ arg' = p
                  /\ IF prefs.reschedulingBehavior = "automatic"
                     THEN \E r \in {applyRescheduling(tasks, history, suggestions)} :
                              /\ tasks' = r.tasks
                              /\ history' = r.history
                              /\ pending' = <<>>
                              /\ out' = [op |-> "handleCycleLogged",
                                         suggestions |-> suggestions,
                                         rescheduled |-> r.rescheduled]
                     ELSE /\ pending' = suggestions
                          /\ out' = [op |-> "handleCycleLogged",
                                     suggestions |-> suggestions, rescheduled |-> <<>>]
                          /\ UNCHANGED <<tasks, history>>
    /\ UNCHANGED <<today, prefs>>

\* handleApplySelected: the accepted suggestions are applied, the panel
\* closes and drops its suggestions
HandleApplySelected ==
    /\ pending # <<>>
    /\ \E accepted \in SUBSET {pending[k].task.id : k \in 1..Len(pending)} :
           /\ accepted # {pending[k].task.id : k \in 1..Len(pending)}
           /\ \E r \in {applyRescheduling(tasks, history,
                            SelectSeq(pending, LAMBDA sg : sg.task.id \in accepted))} :
                  /\ tasks' = r.tasks
                  /\ history' = r.history
                  /\ out' = [op |-> "handleApplySelected", rescheduled |-> r.rescheduled]
    /\ pending' = <<>>
    /\ UNCHANGED <<today, cycles, prefs, arg>>

\* handleApplyAll: every suggestion is applied, the panel closes
HandleApplyAll ==
    /\ pending # <<>>
    /\ \E r \in {applyRescheduling(tasks, history, pending)} :
           /\ tasks' = r.tasks
           /\ history' = r.history
           /\ out' = [op |-> "handleApplyAll", rescheduled |-> r.rescheduled]
    /\ pending' = <<>>
    /\ UNCHANGED <<today, cycles, prefs, arg>>

\* handlePullForward: one candidate of the current pull-forward
\* suggestions is moved into its ovulation period
HandlePullForward ==
    /\ Len(history) <= MaxSessionHistory
    /\ \E groups \in {PullForwardSuggestions(tasks, getAllCycles(cycles), today)} :
       \E g \in 1..Len(groups) :
       \E c \in 1..Len(groups[g].candidates) :
       \E candidate \in {groups[g].candidates[c]} :
       \E u \in {updateTask(tasks, history, candidate.task.id,
                            [scheduledDate |-> candidate.suggestedDate,
                             autoScheduled |-> TRUE])} :
           /\ tasks' = u.tasks
           /\ history' = logTaskHistory(u.history, candidate.task.id, "rescheduled",
                             [trigger |-> "pull_forward", from |-> candidate.currentDate,
                              to |-> candidate.suggestedDate])
           /\ arg' = candidate
           /\ out' = [op |-> "handlePullForward"]
    /\ UNCHANGED <<today, cycles, prefs, pending>>

NextSession ==
    \/ HandleTaskMoved
    \/ HandleCycleLogged
    \/ HandleApplySelected
    \/ HandleApplyAll
    \/ HandlePullForward

SpecSession == InitSession /\ [][NextSession]_vars

\* the history records that are moves of a task: 'rescheduled' entries
MovesOf(id) ==
    {k \in 1..Len(history) : history[k].taskId = id /\ history[k].action = "rescheduled"}

ManualMovesOf(id) == {k \in MovesOf(id) : history[k].metadata.trigger = "manual_drag"}

\* ids proposed by the last checkAndReschedule call or held by the panel
RescheduleProposedIds ==
    {pending[k].task.id : k \in 1..Len(pending)}
        \cup (IF out # NoOut /\ out.op = "handleCycleLogged"
              THEN {out.suggestions[k].task.id : k \in 1..Len(out.suggestions)}
                       \cup {out.rescheduled[k].id : k \in 1..Len(out.rescheduled)}
              ELSE {})

\* ids that are candidates of the current pull-forward suggestions
PullProposedIds ==
    LET groups == PullForwardSuggestions(tasks, getAllCycles(cycles), today)
    IN  UNION {{groups[g].candidates[c].task.id : c \in 1..Len(groups[g].candidates)} :
                  g \in 1..Len(groups)}

LoadOn(db, d) ==
    Cardinality({i \in 1..Len(db) : db[i].scheduledDate = d /\ ~db[i].completed})

TargetCapacity(d) ==
    getCapacityForPhase(PhaseOrLuteal(d, arg.cycles), arg.userPreferences)

AutomaticRunDone ==
    /\ Returned
    /\ arg.userPreferences.reschedulingBehavior = "automatic"
    /\ Len(out.rescheduled) > 0

\* C28: after an automatic checkAndReschedule has applied all its
\* suggestions, every target date that had remaining capacity in the input
\* snapshot holds at most as many incomplete tasks as its phase capacity.
C28_TargetsWithinCapacity ==
    AutomaticRunDone =>
        \A k \in 1..Len(out.suggestions) :
            LET d == out.suggestions[k].suggestedDate
            IN  LoadOn(arg.allTasks, d) < TargetCapacity(d) =>
                    LoadOn(tasks, d) <= TargetCapacity(d)

(***************************************************************************)
(* Store failures during applyRescheduling.  One iteration makes three     *)
(* store writes in order: db.tasks.update, the 'updated' history entry of  *)
(* updateTask, the 'rescheduled' history entry.  Any of them may reject;   *)
(* nothing catches the rejection inside the loop or in checkAndReschedule. *)
(***************************************************************************)
FailingWrites == {"tasks.update", "history.updated", "history.rescheduled"}

\* mutant: the writes of the failing iteration are undone
FailedIteration_RollsBack(db, hist, s, failing) ==
    [tasks |-> db, history |-> hist]

\* the store after an iteration whose named write rejected: the writes
\* before it are kept
FailedIteration(db, hist, s, failing) ==
    IF failing = "tasks.update" THEN [tasks |-> db, history |-> hist]
    ELSE IF failing = "history.updated"
    THEN [tasks   |-> TasksUpdate(db, s.task.id,
                          [scheduledDate |-> s.suggestedDate, autoScheduled |-> TRUE]),
          history |-> hist]
    ELSE Once(updateTask(db, hist, s.task.id,
                         [scheduledDate |-> s.suggestedDate, autoScheduled |-> TRUE]),
              LAMBDA u : [tasks |-> u.tasks, history |-> u.history])

InitApplyFails ==
    /\ InitResched
    /\ prefs.reschedulingBehavior = "automatic"

\* an iteration of applyRescheduling rejects: the loop is left, the promise
\* of checkAndReschedule rejects, the caller gets the error and no result
ApplyReschedulingFails ==
    /\ pending # <<>>
    /\ \E failing \in FailingWrites :
       \E r \in {FailedIteration(tasks, history, Head(pending), failing)} :
           /\ tasks' = r.tasks
           /\ history' = r.history
           /\ out' = [op |-> "rejected", failing |-> failing,
                      k |-> Len(out.rescheduled) + 1, suggestions |-> out.suggestions]
    /\ pending' = <<>>
    /\ UNCHANGED <<today, cycles, prefs, arg>>

NextApplyFails == CheckAndReschedule \/ ApplyReschedulingStep \/ ApplyReschedulingFails

SpecApplyFails == InitApplyFails /\ [][NextApplyFails]_vars

Rejected == out # NoOut /\ out.op = "rejected"

\* the 'rescheduled' history entries of a task
RescheduledEntries(id) ==
    {h \in 1..Len(history) : history[h].taskId = id /\ history[h].action = "rescheduled"}

\* the history entries of a task
EntriesOf(id) == {h \in 1..Len(history) : history[h].taskId = id}

\* C21: when a store write fails while the k-th suggestion is processed,
\* the call rejects, the suggestions before k stay applied (task moved,
\* move logged), the suggestions after k are not applied (task and history
\* as in the snapshot), and the writes the k-th iteration made before the
\* failing one are kept: nothing is rolled back.
C21_FailureLeavesPartialResult ==
    Rejected =>
        /\ pending = <<>>
        /\ \A j \in 1..Len(out.suggestions) :
              LET sg == out.suggestions[j]
              IN  /\ j < out.k =>
                         /\ StoredTask(sg.task.id).scheduledDate = sg.suggestedDate
                         /\ Cardinality(RescheduledEntries(sg.task.id)) = 1
                  /\ j > out.k =>
                         /\ StoredTask(sg.task.id) = SnapshotTask(sg.task.id)
                         /\ EntriesOf(sg.task.id) = {}
                  /\ j = out.k =>
                         /\ RescheduledEntries(sg.task.id) = {}
                         /\ out.failing = "tasks.update" =>
                                /\ StoredTask(sg.task.id) = SnapshotTask(sg.task.id)
                                /\ EntriesOf(sg.task.id) = {}
                         /\ out.failing = "history.updated" =>
                                /\ StoredTask(sg.task.id).scheduledDate = sg.suggestedDate
                                /\ EntriesOf(sg.task.id) = {}
                         /\ out.failing = "history.rescheduled" =>
                                /\ StoredTask(sg.task.id).scheduledDate = sg.suggestedDate
                                /\ Cardinality(EntriesOf(sg.task.id)) = 1

\* the second of two suggestions failed at its last write: the first task
\* is moved and logged, the second is moved without a 'rescheduled' entry
C21_Witness ==
    /\ Rejected
    /\ Len(out.suggestions) = 2 /\ out.k = 2
    /\ out.failing = "history.rescheduled"
    /\ StoredTask(out.suggestions[2].task.id).scheduledDate
           # SnapshotTask(out.suggestions[2].task.id).scheduledDate
    /\ RescheduledEntries(out.suggestions[2].task.id) = {}
    /\ RescheduledEntries(out.suggestions[1].task.id) # {}

(***************************************************************************)
(* Repeated automatic runs: checkAndReschedule is called again and again   *)
(* on the stored tasks, with the cycles, the preferences and today fixed.  *)
(***************************************************************************)
\* the stored tasks after one automatic run on db
TasksAfterRun(db) ==
    applyRescheduling(db, <<>>,
        checkAndRescheduleSuggestions(db, getAllCycles(cycles), prefs, today)).tasks

\* two runs from the stored tasks move tasks and come back to them
PingPong ==
    Once(TasksAfterRun(tasks), LAMBDA once : once # tasks /\ TasksAfterRun(once) = tasks)

MaxRepeatHistory == 6

\* the stored task lists of the repeated runs, as indices of StoredTaskKinds
RepeatTaskPicks == {<<>>, <<1>>, <<2>>, <<4>>, <<1, 1>>, <<1, 2>>, <<2, 2>>, <<1, 3>>}

RepeatTaskLists(now) ==
    {AsTuple([i \in 1..Len(pick) |->
         TaskRecord(i, StoredTaskKinds[pick[i]].energy, NULL, {},
                    now + StoredTaskKinds[pick[i]].off,
                    StoredTaskKinds[pick[i]].done, StoredTaskKinds[pick[i]].auto)]) :
       pick \in RepeatTaskPicks}

RepeatLogs ==
    {<<>>,
     <<[startDate |-> 56, endDate |-> NULL]>>,
     <<[startDate |-> 86, endDate |-> 89]>>,
     <<[startDate |-> 56, endDate |-> NULL], [startDate |-> 86, endDate |-> 89]>>}

InitRepeat ==
    /\ today \in TodaySet
    /\ cycles \in {LogAll(ps) : ps \in RepeatLogs}
    /\ tasks \in RepeatTaskLists(today)
    /\ prefs \in {q \in ReschedulePreferences : q.reschedulingBehavior = "automatic"}
    /\ arg = NoOut
    /\ history = <<>>
    /\ pending = <<>>
    /\ out = NoOut

\* one whole automatic call: the suggestions are computed from the stored
\* tasks and applied, the result is returned.  The history is kept to
\* MaxRepeatHistory entries before a call.
RunCheckAndReschedule ==
    /\ Len(history) < MaxRepeatHistory
    /\ \E cs \in {getAllCycles(cycles)} :
       \E suggestions \in {checkAndRescheduleSuggestions(tasks, cs, prefs, today)} :
       \E r \in {applyRescheduling(tasks, history, suggestions)} :
           /\ arg' = [allTasks |-> tasks, cycles |-> cs, userPreferences |-> prefs]
           /\ tasks' = r.tasks
           /\ history' = r.history
           /\ out' = [op |-> "checkAndReschedule", mode |-> "automatic",
                      suggestions |-> suggestions, rescheduled |-> r.rescheduled]
    /\ UNCHANGED <<today, cycles, prefs, pending>>

NextRepeat == RunCheckAndReschedule

\* the call is made again and again: a call that would change the state is
\* eventually made
SpecRepeat == InitRepeat /\ [][NextRepeat]_vars /\ WF_vars(RunCheckAndReschedule)

\* the last run returned no suggestions
RunReturnedNone ==
    out # NoOut /\ out.op = "checkAndReschedule" /\ out.suggestions = <<>>

=============================================================================
